---- MODULE Spec2Model ----
(***************************************************************************)
(* Probe lifecycle of subiquity's FilesystemController                     *)
(* (subiquity/server/controllers/filesystem.py): the two SingleInstanceTask*)
(* coordinators (_probe_task, _probe_once_task), the probe loop over the   *)
(* two probe classes, the per-class error dictionary, configured() and the *)
(* udev watcher.                                                           *)
(*                                                                         *)
(* Tasks are kept in two functions from task ids, runs (the _probe tasks)  *)
(* and onces (the _probe_once tasks); _probe_task and _probe_once_task     *)
(* hold the id of the coordinator's current task (0 for None).  A task     *)
(* that nothing can refer to any more is dropped (Forget): the finished    *)
(* runs older than the last one that began, and their once-tasks.  The     *)
(* snapshot returned by the external call of once-task o is identified     *)
(* with o.                                                                 *)
(*                                                                         *)
(* The guided engine works on one disk (disk, fsm): start_guided, guided,  *)
(* guided_direct and guided_lvm with the size and the name it chooses for  *)
(* the volume group's volume, the scenarios of v2_guided_GET over the      *)
(* devices of scen, and the unattended layout of run_autoinstall_guided.   *)
(* Sizes of the layout engine are counted in MiB.                          *)
(***************************************************************************)
EXTENDS Integers, Sequences, FiniteSets, TLC

\* Bounds of the model.
MaxRuns == 2
MaxEvents == 2
MaxEdits == 2
DiskSize == 8
PartAlign == 2
MaxParts == 2

VARIABLES
    _configured,        \* FilesystemController._configured
    configured_pc,      \* position inside configured(): "idle" | "super"
    model,              \* the storage model: [probe_data, edits]
    _errors,            \* self._errors: restricted -> [exc, run]
    runs,               \* the _probe tasks, by id
    onces,              \* the _probe_once tasks, by id
    _probe_task,        \* self._probe_task.task (id in runs, 0 = None)
    _probe_once_task,   \* self._probe_once_task.task (id in onces, 0 = None)
    _start_task,        \* "none" | "done"
    listening,          \* the udev monitor's fd is registered with the loop
    timers,             \* pending call_later(0.1, start_listening_udev)
    queued,             \* udev events readable on the monitor
    log,                \* last message of _udev_event
    step,               \* what the handler that ran in the last step gave back
    disk,               \* the ModelDisk a guided target is applied to
    gout,               \* what start_guided gave back: [gap, raised]
    fsm,                \* the model's objects on and around the disk's partitions
    gret,               \* what guided(choice) did last
    lv,                 \* a volume group's size and the size chosen for its volume
    scen                \* the devices of the model and the scenarios listed for them

vars ==
    <<_configured, configured_pc, model, _errors, runs, onces, _probe_task,
      _probe_once_task, _start_task, listening, timers, queued, log, step,
      disk, gout, fsm, gret, lv, scen>>

taskvars ==
    <<_errors, runs, onces, _probe_task, _probe_once_task>>

watchvars ==
    <<listening, timers, queued, log>>

layoutvars ==
    <<fsm, gret>>

calcvars ==
    <<lv, scen>>

diskvars ==
    <<disk, gout, layoutvars, calcvars>>

\* No error report.
NoRef ==
    [restricted |-> FALSE, run |-> 0]

\* The handler of the last step gave nothing back.  call, wait, status,
\* error_report and raised are the API call that returned in the step and its
\* response or exception; received is the number of events _udev_event read
\* from the monitor, discarded the number of guided mutations a
\* load_probe_data replaced.
NoStep ==
    [call |-> "none", wait |-> FALSE, status |-> "none", error_report |-> NoRef,
     raised |-> "none", received |-> 0, discarded |-> 0,
     needs_bootloader_partition |-> FALSE]

\* A step of the probe machinery: no API response, the disk of the guided
\* engine is not involved.
Quiet ==
    /\ step' = NoStep
    /\ UNCHANGED diskvars

----------------------------------------------------------------------------
\* Configuration of the two coordinators (__init__).

\* _probe_once_task is built without cancel_restart: the other policy.
probe_once_cancel_restart ==
    TRUE

\* Faulty variant: _probe_task built with the default policy.
probe_cancel_restart_True ==
    TRUE

\* _probe_task is built with cancel_restart=False.
probe_cancel_restart ==
    FALSE

\* The loop of _probe: (restricted, kind) pairs in order; only restricted is kept.
ProbeClasses ==
    <<FALSE, TRUE>>

----------------------------------------------------------------------------
\* Task records.

NewRun ==
    [state |-> "created", outcome |-> "none", idx |-> 0, once |-> 0,
     begun |-> FALSE, cancel_req |-> FALSE]

\* A _probe_once task at its await of run_in_thread; cfg_at_call is the value
\* of _configured when the external call was submitted.
NewOnce(r, restricted, cfg) ==
    [state |-> "pending", outcome |-> "none", why |-> "none",
     restricted |-> restricted, run |-> r, call |-> "inflight",
     report |-> "none", cfg_at_call |-> cfg]

NoTasks ==
    [k \in {} |-> NewRun]

MaxOf(S) ==
    IF S = {} THEN 0 ELSE CHOOSE x \in S : \A y \in S : y <= x

\* The id the next task of a coordinator gets.
NewId(tasks) ==
    MaxOf(DOMAIN tasks) + 1

Add(tasks, rec) ==
    [k \in DOMAIN tasks \cup {NewId(tasks)} |->
        IF k \in DOMAIN tasks THEN tasks[k] ELSE rec]

\* The last run whose body began to execute (0 when none did).
LastBegun(rs) ==
    MaxOf({r \in DOMAIN rs : rs[r].begun})

\* Finished runs older than the last one that began are dropped with their
\* finished once-tasks.  A call still in flight for such a once-task belongs to a
\* cancelled task: its return reaches nothing of the controller.
Forget(w) ==
    LET keepR == {r \in DOMAIN w.runs :
                     r >= LastBegun(w.runs) \/ w.runs[r].state # "done"}
        keepO == {o \in DOMAIN w.onces :
                     \/ w.onces[o].run \in keepR
                     \/ w.onces[o].state # "done"}
    IN  [w EXCEPT !.runs = [r \in keepR |-> w.runs[r]],
                  !.onces = [o \in keepO |-> w.onces[o]]]

\* The task state the handlers work on, as one record; raised is the exception
\* the last coordinator call raised to its caller.
World ==
    [runs |-> runs, onces |-> onces, pt |-> _probe_task,
     ot |-> _probe_once_task, errors |-> _errors, cfg |-> _configured,
     raised |-> "none"]

SetWorld(w) ==
    /\ runs' = Forget(w).runs
    /\ onces' = Forget(w).onces
    /\ _probe_task' = w.pt
    /\ _probe_once_task' = w.ot
    /\ _errors' = w.errors

\* SingleInstanceTask: a task exists and is not done.
Busy(tasks, cur) ==
    cur # 0 /\ tasks[cur].state # "done"

\* Task.cancel() on a _probe_once task: the coroutine is abandoned at its await
\* of run_in_thread; the call in the executor thread goes on.
CancelOnce(w, o, why) ==
    IF o # 0 /\ w.onces[o].state # "done"
    THEN [w EXCEPT !.onces[o].state = "done",
                   !.onces[o].outcome = "cancelled",
                   !.onces[o].why = why]
    ELSE w

\* Faulty variant: the once-task is shielded from the cancellation of its waiter.
WaitForCancelled_Shielded(w, r) ==
    w

\* asyncio.wait_for(self._probe_once_task.task, timeout) being cancelled:
\* wait_for passes the cancellation down to the task it waits on.
WaitForCancelled(w, r) ==
    IF w.runs[r].state = "waiting" THEN CancelOnce(w, w.runs[r].once, "parent") ELSE w

\* SingleInstanceTask.start on self._probe_once_task, called by run r.
StartProbeOnceTask(w, r, restricted) ==
    IF Busy(w.onces, w.ot) /\ ~probe_once_cancel_restart
    THEN [w EXCEPT !.raised = "TaskAlreadyRunningError"]
    ELSE LET c == IF Busy(w.onces, w.ot) THEN CancelOnce(w, w.ot, "restart") ELSE w
         IN  [c EXCEPT !.onces = Add(c.onces, NewOnce(r, restricted, c.cfg)),
                       !.ot = NewId(c.onces),
                       !.raised = "none"]

----------------------------------------------------------------------------
\* _probe: the loop body.

\* Faulty variant: the dictionary is not emptied when a run begins.
ClearErrors_Kept(errs) ==
    errs

\* self._errors = {}
ClearErrors(errs) ==
    [k \in {} |-> [exc |-> "none", run |-> 0]]

\* Faulty variant: the failure is logged but not stored.
RecordError_Dropped(errs, restricted, exc, r, report) ==
    errs

\* report = make_apport_report(...); if report is not None:
\*     self._errors[restricted] = (exc, report)
RecordError(errs, restricted, exc, r, report) ==
    IF report
    THEN [k \in DOMAIN errs \cup {restricted} |->
             IF k = restricted THEN [exc |-> exc, run |-> r] ELSE errs[k]]
    ELSE errs

\* One pass of the try block up to the await of wait_for: the once-task of
\* class ProbeClasses[i] is started and run r waits on it.
Attempt(w, r, i) ==
    LET s == StartProbeOnceTask(w, r, ProbeClasses[i])
    IN  IF s.raised = "none"
        THEN [s EXCEPT !.runs[r].state = "waiting",
                       !.runs[r].idx = i,
                       !.runs[r].once = s.ot]
        ELSE [s EXCEPT !.runs[r].idx = i, !.runs[r].once = 0]

\* The loop is over (break, or no class left): _probe returns.
Return(w, r) ==
    [w EXCEPT !.runs[r].state = "done", !.runs[r].outcome = "returned"]

\* except Exception as exc: ... continue -- the failure of class i is recorded
\* under its class when a report could be made, and the loop goes on with the
\* next class; o is the once-task that failed (0 when start itself raised).
RECURSIVE OnException(_, _, _, _, _, _)
OnException(w, r, i, o, exc, report) ==
    LET e == [w EXCEPT !.errors = RecordError(w.errors, ProbeClasses[i], exc, r, report),
                       !.raised = "none"]
        g == IF o = 0 THEN e
             ELSE [e EXCEPT !.onces[o].report = IF report THEN "made" ELSE "None"]
    IN  IF i < Len(ProbeClasses)
        THEN LET a == Attempt(g, r, i + 1)
             IN  IF a.raised = "none" THEN a
                 ELSE OnException(a, r, i + 1, 0, a.raised, report)
        ELSE Return(g, r)

\* Faulty variant: the break is missing, the loop goes on after a success.
OnSuccess_NoBreak(w, r) ==
    IF w.runs[r].idx < Len(ProbeClasses)
    THEN Attempt(w, r, w.runs[r].idx + 1)
    ELSE Return(w, r)

\* wait_for returned the once-task's result: break.
OnSuccess(w, r) ==
    Return(w, r)

\* wait_for's timer expired first: it cancels the once-task and raises
\* TimeoutError, an Exception, into the try block.
OnTimeout(w, r, report) ==
    OnException(CancelOnce(w, w.runs[r].once, "timeout"), r, w.runs[r].idx,
                w.runs[r].once, "TimeoutError", report)

\* The task of run r ends cancelled.
Cancelled(w, r) ==
    [w EXCEPT !.runs[r].state = "done", !.runs[r].outcome = "cancelled"]

\* Faulty variant: the except CancelledError clause is missing and the cancellation is
\* caught by except Exception (CancelledError is an Exception in Python 3.6).
OnCancelled_AsException(w, r) ==
    OnException(w, r, w.runs[r].idx, w.runs[r].once, "CancelledError", TRUE)

\* except asyncio.CancelledError: raise -- the run ends cancelled, nothing is
\* recorded and the loop is left.
OnCancelled(w, r) ==
    Cancelled(w, r)

\* Task.cancel() on a _probe task: a task that has not run yet ends cancelled
\* without running; one waiting in wait_for gets CancelledError there.
CancelRun(w, r) ==
    CASE w.runs[r].state = "done" -> w
      [] w.runs[r].state = "created" ->
            Cancelled([w EXCEPT !.runs[r].cancel_req = TRUE], r)
      [] OTHER ->
            OnCancelled(
                [WaitForCancelled(w, r) EXCEPT !.runs[r].cancel_req = TRUE], r)

\* SingleInstanceTask.start / start_sync on self._probe_task.
StartProbeTask(w) ==
    IF Busy(w.runs, w.pt) /\ ~probe_cancel_restart
    THEN [w EXCEPT !.raised = "TaskAlreadyRunningError"]
    ELSE LET c == IF Busy(w.runs, w.pt) THEN CancelRun(w, w.pt) ELSE w
         IN  [c EXCEPT !.runs = Add(c.runs, NewRun),
                       !.pt = NewId(c.runs),
                       !.raised = "none"]

----------------------------------------------------------------------------
\* _probe_once: what happens to the model when the external call returns.

\* self.model.load_probe_data(storage): the model is rebuilt from the snapshot.
LoadProbeData(m, snap) ==
    [probe_data |-> snap, edits |-> 0]

\* Faulty variant: the check of self._configured is missing.
ApplyProbeData_NoConfiguredCheck(m, cfg, live, snap) ==
    IF live THEN LoadProbeData(m, snap) ELSE m

\* Faulty variant: the result of the call is applied whether or not the task waiting
\* for it was cancelled.
ApplyProbeData_Abandoned(m, cfg, live, snap) ==
    IF ~cfg THEN LoadProbeData(m, snap) ELSE m

\* Faulty variant: a snapshot is not loaded over a model that carries mutations.
ApplyProbeData_KeepEdits(m, cfg, live, snap) ==
    IF live /\ ~cfg /\ m.edits = 0 THEN LoadProbeData(m, snap) ELSE m

\* The code after "storage = await run_in_thread(...)": it runs only in a task
\* that was not cancelled meanwhile (live), and returns early when
\* self._configured is set.
ApplyProbeData(m, cfg, live, snap) ==
    IF live /\ ~cfg THEN LoadProbeData(m, snap) ELSE m

----------------------------------------------------------------------------
\* No disk, and nothing given back by start_guided.
NoDisk ==
    [size |-> 0, part_align |-> 1, parts |-> <<>>]

\* None where a gap is expected.
NoGap ==
    [offset |-> -1, size |-> 0]

\* call is the start_guided variant that ran last, number, new_size and tgap
\* its target, gap what it returned and raised what it raised.
NoOut ==
    [call |-> "none", number |-> 0, new_size |-> 0, tgap |-> NoGap,
     gap |-> NoGap, raised |-> "none"]

InitProbe ==
    /\ _configured = FALSE
    /\ configured_pc = "idle"
    /\ model = [probe_data |-> 0, edits |-> 0]
    /\ _errors = [k \in {} |-> [exc |-> "none", run |-> 0]]
    /\ runs = NoTasks
    /\ onces = NoTasks
    /\ _probe_task = 0
    /\ _probe_once_task = 0
    /\ _start_task = "none"
    /\ listening = FALSE
    /\ timers = 0
    /\ queued = 0
    /\ log = "none"
    /\ step = NoStep

\* A model with no filesystem, volume group, logical volume or bootloader
\* partition, and no guided choice applied.
NoFs ==
    [filesystems |-> {}, vgs |-> {}, lvs |-> {}, boot |-> {},
     guided_configuration |-> "none"]

\* guided(choice) has not been called.
NoRet ==
    [call |-> "none", mode |-> "none", kind |-> "none", use_lvm |-> FALSE,
     toggle_boot |-> FALSE,
     target |-> [kind |-> "none", gap |-> NoGap, partition_number |-> 0,
                 new_size |-> 0],
     gap |-> NoGap, mid |-> {}, raised |-> "none"]

\* No volume group is being sized.
NoLv ==
    [vg_size |-> 0, lv_size |-> -1]

\* No device, and no scenario listed.
NoScen ==
    [devs |-> <<>>, install_min |-> 0, called |-> FALSE, scenarios |-> <<>>]

InitCalc ==
    /\ lv = NoLv
    /\ scen = NoScen

\* The probe machinery alone: the guided engine's disk is not looked at.
Init ==
    /\ InitProbe
    /\ disk = NoDisk
    /\ gout = NoOut
    /\ fsm = NoFs
    /\ gret = NoRet
    /\ InitCalc

\* start() and the _start() task it schedules: the monitor is created, the
\* watcher attached and the first orchestration run requested.
Start ==
    /\ Quiet
    /\ _start_task = "none"
    /\ _start_task' = "done"
    /\ listening' = TRUE
    /\ SetWorld(StartProbeTask(World))
    /\ UNCHANGED <<_configured, configured_pc, model, timers, queued, log>>

\* The first step of a _probe task: the error dictionary is emptied and the
\* first class attempted.
ProbeBegin(r, report) ==
    /\ Quiet
    /\ runs[r].state = "created"
    /\ LET c == [World EXCEPT !.errors = ClearErrors(World.errors),
                              !.runs[r].begun = TRUE]
           a == Attempt(c, r, 1)
       IN  SetWorld(IF a.raised = "none" THEN a
                    ELSE OnException(a, r, 1, 0, a.raised, report))
    /\ UNCHANGED <<_configured, configured_pc, model, _start_task>>
    /\ UNCHANGED watchvars

\* The external call prober.get_storage of once-task o returns (res = "ok") or
\* raises (res = "raise"); a task still pending finishes _probe_once with it.
CallReturn(o, res) ==
    /\ onces[o].call = "inflight"
    /\ LET live == onces[o].state = "pending"
       IN  /\ model' = IF res = "ok"
                       THEN ApplyProbeData(model, _configured, live, o)
                       ELSE model
           /\ SetWorld([World EXCEPT
                  !.onces[o].call = "returned",
                  !.onces[o].state = "done",
                  !.onces[o].outcome =
                      IF live THEN (IF res = "ok" THEN "ok" ELSE "exc") ELSE @])
           /\ step' = [NoStep EXCEPT !.discarded =
                         IF model' # model THEN model.edits ELSE 0]
    /\ UNCHANGED <<_configured, configured_pc, _start_task>>
    /\ UNCHANGED watchvars
    /\ UNCHANGED diskvars

\* Run r wakes up from wait_for with the finished once-task it waited on.
ProbeResume(r, report) ==
    /\ Quiet
    /\ runs[r].state = "waiting"
    /\ runs[r].once # 0
    /\ onces[runs[r].once].state = "done"
    /\ LET o == runs[r].once
       IN  SetWorld(CASE onces[o].outcome = "ok" -> OnSuccess(World, r)
                      [] onces[o].outcome = "exc" ->
                            OnException(World, r, runs[r].idx, o, "Exception", report)
                      [] OTHER -> OnCancelled(World, r))
    /\ UNCHANGED <<_configured, configured_pc, model, _start_task>>
    /\ UNCHANGED watchvars

\* The timer of wait_for expires while the once-task is still pending.
Timeout(r, report) ==
    /\ Quiet
    /\ runs[r].state = "waiting"
    /\ runs[r].once # 0
    /\ onces[runs[r].once].state = "pending"
    /\ SetWorld(OnTimeout(World, r, report))
    /\ UNCHANGED <<_configured, configured_pc, model, _start_task>>
    /\ UNCHANGED watchvars

\* Something outside the controller cancels the orchestration task.
CancelProbe(r) ==
    /\ Quiet
    /\ runs[r].state # "done"
    /\ SetWorld(CancelRun(World, r))
    /\ UNCHANGED <<_configured, configured_pc, model, _start_task>>
    /\ UNCHANGED watchvars

\* Something outside the controller cancels the single-probe task alone.
CancelProbeOnce(o) ==
    /\ Quiet
    /\ onces[o].state = "pending"
    /\ SetWorld(CancelOnce(World, o, "external"))
    /\ UNCHANGED <<_configured, configured_pc, model, _start_task>>
    /\ UNCHANGED watchvars

----------------------------------------------------------------------------
\* The udev watcher.

\* A block-device event becomes readable on the monitor.
DeviceEvent ==
    /\ Quiet
    /\ _start_task = "done"
    /\ queued < MaxEvents
    /\ queued' = queued + 1
    /\ UNCHANGED <<_configured, configured_pc, model, _start_task, listening,
                   timers, log>>
    /\ UNCHANGED taskvars

\* Faulty variant: the run is scheduled directly, not through the coordinator.
UdevStartProbe_Unguarded(w) ==
    [w EXCEPT !.runs = Add(w.runs, NewRun), !.pt = NewId(w.runs)]

\* Faulty variant: the handler of TaskAlreadyRunningError cancels the active run.
UdevStartProbe_CancelOnBusy(w) ==
    LET s == StartProbeTask(w)
    IN  IF s.raised = "none" THEN s ELSE CancelRun(s, s.pt)

\* try: self._probe_task.start_sync() in _udev_event.
UdevStartProbe(w) ==
    StartProbeTask(w)

\* Faulty variant: the watcher is detached and no reattach is scheduled.
CallLater_Missing(t) ==
    t

\* loop.call_later(0.1, self.start_listening_udev): one more timer is pending.
CallLater(t) ==
    t + 1

\* Faulty variant: the except clause is missing and the error leaves the callback.
ExceptAlreadyRunning_Missing(raised) ==
    raised

\* except TaskAlreadyRunningError: log.debug(...) -- what still leaves the
\* callback of what start_sync raised.
ExceptAlreadyRunning(raised) ==
    IF raised = "TaskAlreadyRunningError" THEN "none" ELSE raised

\* _udev_event, the reader callback of the monitor's fd; settled is the result
\* of "udevadm settle -t 0".
UdevEvent(settled) ==
    /\ listening
    /\ queued > 0
    /\ IF ~settled
       THEN /\ listening' = FALSE
            /\ timers' = CallLater(timers)
            /\ log' = "waiting"
            /\ step' = NoStep
            /\ UNCHANGED queued
            /\ UNCHANGED taskvars
       ELSE LET s == UdevStartProbe(World)
            IN  /\ DOMAIN s.runs \subseteq 1..MaxRuns
                /\ queued' = 0
                /\ step' = [NoStep EXCEPT !.received = queued,
                                          !.raised = ExceptAlreadyRunning(s.raised)]
                /\ SetWorld(s)
                /\ log' = IF s.raised = "TaskAlreadyRunningError"
                          THEN "skipped" ELSE "triggered"
                /\ UNCHANGED <<listening, timers>>
    /\ UNCHANGED <<_configured, configured_pc, model, _start_task>>
    /\ UNCHANGED diskvars

\* The call_later(0.1, self.start_listening_udev) timer fires.
Reattach ==
    /\ Quiet
    /\ timers > 0
    /\ timers' = timers - 1
    /\ listening' = TRUE
    /\ UNCHANGED <<_configured, configured_pc, model, _start_task, queued, log>>
    /\ UNCHANGED taskvars

----------------------------------------------------------------------------
\* configured(): self._configured = True, then await super().configured() ...
ConfiguredBegin ==
    /\ Quiet
    /\ _start_task = "done"
    /\ configured_pc = "idle"
    /\ _configured' = TRUE
    /\ configured_pc' = "super"
    /\ UNCHANGED <<model, _start_task>>
    /\ UNCHANGED taskvars
    /\ UNCHANGED watchvars

\* ... then self.stop_listening_udev().
ConfiguredEnd ==
    /\ Quiet
    /\ configured_pc = "super"
    /\ configured_pc' = "idle"
    /\ listening' = FALSE
    /\ UNCHANGED <<_configured, model, _start_task, timers, queued, log>>
    /\ UNCHANGED taskvars

----------------------------------------------------------------------------
\* The guided engine on one disk: start_guided and what it uses of the gap
\* calculator.  A disk is [size, part_align, parts], parts the partitions in
\* offset order, each [number, offset, size, estimated_min_size, resize].

\* align_up(size, part_align): size rounded up to the alignment.
AlignUp(n, a) ==
    ((n + a - 1) \div a) * a

\* gaps(disk): for the span from the disk's start or the aligned end of a
\* partition to the start of the next partition or the disk's end, a gap when
\* the span is not negative; slot i is the span after partition i (0: before
\* the first partition).
GapInSlot(d, i) ==
    LET start == IF i = 0 THEN 0
                 ELSE AlignUp(d.parts[i].offset + d.parts[i].size, d.part_align)
        end == IF i = Len(d.parts) THEN d.size ELSE d.parts[i + 1].offset
    IN  IF end - start >= 0 THEN [offset |-> start, size |-> end - start]
        ELSE NoGap

Gaps(d) ==
    {GapInSlot(d, i) : i \in 0..Len(d.parts)} \ {NoGap}

\* gaps.after(disk, offset), called with the offset of a partition: the gap
\* that follows that partition's end, None when there is none.
After(d, offset) ==
    LET at == {i \in 1..Len(d.parts) : d.parts[i].offset = offset}
    IN  IF at = {} THEN NoGap ELSE GapInSlot(d, MaxOf(at))

\* gaps.at_offset(disk, offset): the gap at exactly that offset, None
\* (NotFound) when there is none.
AtOffset(d, offset) ==
    LET at == {g \in Gaps(d) : g.offset = offset}
    IN  IF at = {} THEN NoGap
        ELSE CHOOSE g \in at : \A h \in at : g.size >= h.size

\* Faulty variant: an unknown number gives the disk's first partition.
GetPartition_First(d, number) ==
    LET found == {i \in 1..Len(d.parts) : d.parts[i].number = number}
    IN  IF found = {} THEN (IF Len(d.parts) > 0 THEN 1 ELSE 0)
        ELSE CHOOSE i \in found : \A j \in found : i <= j

\* get_partition(disk, number): the index in disk.partitions() of the first
\* partition with the number; 0 stands for the ValueError it raises.
GetPartition(d, number) ==
    LET found == {i \in 1..Len(d.parts) : d.parts[i].number = number}
    IN  IF found = {} THEN 0
        ELSE CHOOSE i \in found : \A j \in found : i <= j

\* Faulty variant: a requested size equal to the current size is refused too.
TooLarge_OrEqual(new_size, size) ==
    new_size >= size

\* if new_size > partition.size: raise Exception(...)
TooLarge(new_size, size) ==
    new_size > size

\* Faulty variant: the gap is looked up at the end of the target's gap.
UseGapOffset_End(tgap) ==
    tgap.offset + tgap.size

\* target.gap.offset, all that start_guided_use_gap uses of the target's gap.
UseGapOffset(tgap) ==
    tgap.offset

\* start_guided_use_gap(target, disk): [disk, gap, raised].
StartGuidedUseGap(d, tgap) ==
    LET gap == AtOffset(d, UseGapOffset(tgap))
    IN  [disk |-> d, gap |-> gap,
         raised |-> IF gap = NoGap THEN "NotFound" ELSE "none"]

\* start_guided_resize(target, disk): [disk, gap, raised]; the exceptions are
\* named by what they report: the ValueError of get_partition "NotFound",
\* 'Aligned requested size ... too large' "InvalidGeometry", 'gap not found
\* after resize' "InvariantViolation".
StartGuidedResize(d, number, target_new_size) ==
    LET i == GetPartition(d, number)
        new_size == AlignUp(target_new_size, d.part_align)
    IN  IF i = 0
        THEN [disk |-> d, gap |-> NoGap, raised |-> "NotFound"]
        ELSE IF TooLarge(new_size, d.parts[i].size)
        THEN [disk |-> d, gap |-> NoGap, raised |-> "InvalidGeometry"]
        ELSE LET resized == [d EXCEPT !.parts[i].size = new_size,
                                      !.parts[i].resize = TRUE]
                 gap == After(resized, resized.parts[i].offset)
             IN  [disk |-> resized, gap |-> gap,
                  raised |-> IF gap = NoGap THEN "InvariantViolation" ELSE "none"]

\* The disks a probe can give: up to MaxParts partitions numbered in offset
\* order, aligned, inside the disk and not overlapping, each with an estimated
\* minimum size of 1 (nearly empty) or of its size (full).
Offsets ==
    {o \in 0..DiskSize : o % PartAlign = 0}

PartsAt(n) ==
    UNION {{[number |-> n, offset |-> o, size |-> s, estimated_min_size |-> mn,
             resize |-> FALSE] : mn \in {1, s}} :
              o \in Offsets, s \in Offsets \ {0}}

WellFormed(ps) ==
    /\ \A i \in 1..Len(ps) : ps[i].offset + ps[i].size <= DiskSize
    /\ \A i \in 1..Len(ps) - 1 : ps[i].offset + ps[i].size <= ps[i + 1].offset

Disks ==
    UNION {{[size |-> DiskSize, part_align |-> PartAlign, parts |-> ps] :
               ps \in {qs \in [1..k -> UNION {PartsAt(n) : n \in 1..MaxParts}] :
                          /\ \A i \in 1..k : qs[i].number = i
                          /\ WellFormed(qs)}} :
           k \in 0..MaxParts}

\* The probe machinery stands still while the guided engine is looked at.
Still ==
    /\ step' = NoStep
    /\ UNCHANGED calcvars
    /\ UNCHANGED <<_configured, configured_pc, model, _start_task>>
    /\ UNCHANGED taskvars
    /\ UNCHANGED watchvars

InitGuided ==
    /\ InitProbe
    /\ disk \in Disks
    /\ gout = NoOut
    /\ fsm = NoFs
    /\ gret = NoRet
    /\ InitCalc

\* start_guided with a Resize target.
GuidedResize(number, new_size) ==
    /\ LET out == StartGuidedResize(disk, number, new_size)
       IN  /\ disk' = out.disk
           /\ gout' = [NoOut EXCEPT !.call = "resize", !.number = number,
                                    !.new_size = new_size, !.gap = out.gap,
                                    !.raised = out.raised]
    /\ Still
    /\ UNCHANGED layoutvars

\* start_guided with a UseGap target.
GuidedUseGap(tgap) ==
    /\ LET out == StartGuidedUseGap(disk, tgap)
       IN  /\ disk' = out.disk
           /\ gout' = [NoOut EXCEPT !.call = "use_gap", !.tgap = tgap,
                                    !.gap = out.gap, !.raised = out.raised]
    /\ Still
    /\ UNCHANGED layoutvars

\* The targets: any partition number and any positive requested size up to one
\* above the disk's size; any offset on the disk with any aligned positive
\* size of the gap.
NextStartGuided ==
    \/ \E number \in 1..MaxParts + 1, new_size \in 1..DiskSize + 1 :
           GuidedResize(number, new_size)
    \/ \E o \in 0..DiskSize, s \in Offsets \ {0} :
           GuidedUseGap([offset |-> o, size |-> s])

SpecStartGuided ==
    InitGuided /\ [][NextStartGuided]_vars

----------------------------------------------------------------------------
\* guided(choice): the layout of the payload.  The handlers work on a record
\* [disk, fs, raised, part, gap]: the disk, the model's other objects (fsm),
\* the exception that ended the call ("none": still running), the number of
\* the partition create_partition made last and the gap the call holds.  An
\* operator applied to a record that carries an exception leaves it alone.
\* Sizes are counted in MiB.

\* 1 << 30
GiB ==
    1024

\* LVM_CHUNK_SIZE of subiquity.models.filesystem, 4 MiB.
LVM_CHUNK_SIZE ==
    4

\* sizes.get_bootfs_size(gap.size): the fixed size of the /boot partition.
BootfsSize ==
    2

\* The size of the bootloader partition add_boot_disk makes.
BootloaderSize ==
    2

\* What a volume group keeps of its devices for metadata.
VgOverhead ==
    1

\* align_down(size, chunk): size rounded down to a multiple of chunk.
AlignDown(n, a) ==
    (n \div a) * a

Working(d, f) ==
    [disk |-> d, fs |-> f, raised |-> "none", part |-> 0, gap |-> NoGap]

Raise(m, exc) ==
    IF m.raised = "none" THEN [m EXCEPT !.raised = exc] ELSE m

\* The devices a filesystem or a volume group sits on.
PartDev(n) ==
    [type |-> "partition", number |-> n, vg |-> <<>>, name |-> "none"]

LvDev(vg, name) ==
    [type |-> "lvm_partition", number |-> 0, vg |-> vg, name |-> name]

\* The numbers of the disk's partitions.
Numbers(d) ==
    {d.parts[i].number : i \in 1..Len(d.parts)}

\* The next free partition number of the disk.
NextNumber(d) ==
    CHOOSE n \in 1..Len(d.parts) + 1 :
        /\ n \notin Numbers(d)
        /\ \A k \in 1..n - 1 : k \in Numbers(d)

\* The partitions are kept in offset order.
Insert(ps, p) ==
    LET k == Cardinality({i \in 1..Len(ps) : ps[i].offset < p.offset})
    IN  SubSeq(ps, 1, k) \o <<p>> \o SubSeq(ps, k + 1, Len(ps))

\* gaps.largest_gap(disk): the largest gap, the first of them when several
\* are; None when the disk has no gap.
LargestGap(d) ==
    IF Gaps(d) = {} THEN NoGap
    ELSE CHOOSE g \in Gaps(d) :
             \A h \in Gaps(d) :
                 g.size > h.size \/ (g.size = h.size /\ g.offset <= h.offset)

\* gap.within(): the gap re-derived from the disk's present partitions inside
\* the range of the gap held before, the largest when several are; None when
\* nothing of it is left.
Within(d, gap) ==
    LET in == {g \in Gaps(d) : /\ g.offset >= gap.offset
                               /\ g.offset + g.size <= gap.offset + gap.size}
    IN  IF in = {} THEN NoGap
        ELSE CHOOSE g \in in :
                 \A h \in in :
                     g.size > h.size \/ (g.size = h.size /\ g.offset <= h.offset)

\* gap.split(size): [head, tail, raised]; the head has the aligned size, the
\* tail is None when the head takes the whole gap, InvalidGeometry when the
\* size exceeds the gap.
Split(gap, size, a) ==
    LET head == AlignUp(size, a)
    IN  IF head > gap.size
        THEN [head |-> NoGap, tail |-> NoGap, raised |-> "InvalidGeometry"]
        ELSE [head |-> [offset |-> gap.offset, size |-> head],
              tail |-> IF head = gap.size THEN NoGap
                       ELSE [offset |-> gap.offset + head,
                             size |-> gap.size - head],
              raised |-> "none"]

\* create_partition(device, gap, spec): a partition over the whole gap with the
\* next free number; a filesystem on it when spec names one.  A gap of None
\* cannot be used (TypeError), a gap off the alignment is InvalidGeometry.
CreatePartition(m, gap, spec) ==
    IF m.raised # "none" THEN m
    ELSE IF gap = NoGap THEN Raise(m, "TypeError")
    ELSE IF gap.size % m.disk.part_align # 0 THEN Raise(m, "InvalidGeometry")
    ELSE LET n == NextNumber(m.disk)
             p == [number |-> n, offset |-> gap.offset, size |-> gap.size,
                   estimated_min_size |-> 0, resize |-> FALSE]
         IN  [m EXCEPT !.disk.parts = Insert(@, p),
                       !.part = n,
                       !.fs.filesystems =
                           IF spec.fstype = "none" THEN @
                           ELSE @ \cup {[dev |-> PartDev(n),
                                         fstype |-> spec.fstype,
                                         mount |-> spec.mount]}]

\* The volume groups on the given partitions, and what sits on them.
VgsOn(f, ns) ==
    {v \in f.vgs : v.device \in ns}

DevsOn(f, ns) ==
    {PartDev(n) : n \in ns} \cup
    {LvDev(l.vg, l.name) : l \in {k \in f.lvs : k.vg \in {v.name : v \in VgsOn(f, ns)}}}

\* reformat(disk): the partition table is wiped; what sat on the partitions
\* goes with them.
Reformat(m) ==
    IF m.raised # "none" THEN m
    ELSE LET ns == Numbers(m.disk)
             f == m.fs
         IN  [m EXCEPT !.disk.parts = <<>>,
                       !.fs.filesystems = {x \in @ : x.dev \notin DevsOn(f, ns)},
                       !.fs.lvs = {l \in @ : l.vg \notin {v.name : v \in VgsOn(f, ns)}},
                       !.fs.vgs = @ \ VgsOn(f, ns),
                       !.fs.boot = {}]

\* add_boot_disk(disk): a disk without a bootloader partition gets one, made
\* at the head of its largest gap; InvalidGeometry when that gap is too small.
AddBootDisk(m) ==
    IF m.raised # "none" \/ m.fs.boot # {} THEN m
    ELSE LET s == Split(LargestGap(m.disk), BootloaderSize, m.disk.part_align)
         IN  IF LargestGap(m.disk) = NoGap \/ s.raised # "none"
             THEN Raise(m, "InvalidGeometry")
             ELSE LET c == CreatePartition(m, s.head,
                               [fstype |-> "fat32", mount |-> "/boot/efi"])
                  IN  IF c.raised # "none" THEN c
                      ELSE [c EXCEPT !.fs.boot = @ \cup {c.part}]

\* create_volgroup(spec): NameConflict when the name is in use.
CreateVolgroup(m, name, part, encrypt) ==
    IF m.raised # "none" THEN m
    ELSE IF \E v \in m.fs.vgs : v.name = name THEN Raise(m, "NameConflict")
    ELSE LET i == CHOOSE j \in 1..Len(m.disk.parts) : m.disk.parts[j].number = part
             size == AlignDown(m.disk.parts[i].size - VgOverhead, LVM_CHUNK_SIZE)
         IN  [m EXCEPT !.fs.vgs = @ \cup {[name |-> name, device |-> part,
                                           size |-> size, encrypt |-> encrypt]}]

\* create_logical_volume(vg, spec)
CreateLogicalVolume(m, vg, spec) ==
    IF m.raised # "none" THEN m
    ELSE [m EXCEPT !.fs.lvs = @ \cup {[vg |-> vg, name |-> spec.name,
                                       size |-> spec.size]},
                   !.fs.filesystems = @ \cup {[dev |-> LvDev(vg, spec.name),
                                               fstype |-> spec.fstype,
                                               mount |-> spec.mount]}]

\* is_root_mounted()
IsRootMounted(f) ==
    \E x \in f.filesystems : x.mount = "/"

\* 'ubuntu-vg' for 0 and 'ubuntu-vg-{}'.format(i) for the others.
VgName(i) ==
    IF i = 0 THEN <<"ubuntu-vg">> ELSE <<"ubuntu-vg", i>>

\* Faulty variant: the name is the one after the last one of the sequence in use.
RECURSIVE GuidedVgName_AfterLast(_, _)
GuidedVgName_AfterLast(names, i) ==
    IF \E j \in i..Cardinality(names) : VgName(j) \in names
    THEN GuidedVgName_AfterLast(names, i + 1)
    ELSE VgName(i + 1)

\* vg_name = 'ubuntu-vg'; i = 0
\* while self.model._one(type='lvm_volgroup', name=vg_name) is not None:
\*     i += 1; vg_name = 'ubuntu-vg-{}'.format(i)
RECURSIVE GuidedVgName(_, _)
GuidedVgName(names, i) ==
    IF VgName(i) \in names THEN GuidedVgName(names, i + 1) ELSE VgName(i)

\* Faulty variant: half of the group from 10 GiB on.
LvSize_HalfFromTen(vg_size) ==
    AlignDown(IF vg_size < 10 * GiB THEN vg_size
              ELSE IF vg_size < 200 * GiB THEN vg_size \div 2
              ELSE 100 * GiB, LVM_CHUNK_SIZE)

\* The size guided_lvm gives the logical volume of a group of size vg_size.
LvSize(vg_size) ==
    AlignDown(IF vg_size < 10 * GiB THEN vg_size
              ELSE IF vg_size < 20 * GiB THEN 10 * GiB
              ELSE IF vg_size < 200 * GiB THEN vg_size \div 2
              ELSE 100 * GiB, LVM_CHUNK_SIZE)

\* guided_direct(gap)
GuidedDirect(m, gap) ==
    CreatePartition(m, gap, [fstype |-> "ext4", mount |-> "/"])

\* The element of a set of one element: {F(x) : x \in {e}} is F of the value
\* of e, worked out once.
Value(S) ==
    CHOOSE x \in S : TRUE

\* guided_lvm, the partitions: the gap is split into the /boot partition and
\* the rest, an unformatted partition; boot is the number of the former and
\* m.part the number of the latter.
LvmParts(m, gap) ==
    LET s == Split(gap, BootfsSize, m.disk.part_align)
    IN  Value({[m |-> CreatePartition(b, s.tail,
                                      [fstype |-> "none", mount |-> "none"]),
                boot |-> b.part] :
                  b \in {CreatePartition(
                            IF s.raised = "none" THEN m ELSE Raise(m, s.raised),
                            s.head, [fstype |-> "ext4", mount |-> "/boot"])}})

\* guided_lvm, the volumes: the volume group on the partition under the
\* first free name of the sequence, and its one logical volume.
LvmVolume(r, part, encrypt) ==
    LET Lv(v, vg_name) ==
            IF v.raised # "none" THEN v
            ELSE LET vg == CHOOSE x \in v.fs.vgs : x.name = vg_name
                 IN  CreateLogicalVolume(v, vg_name,
                         [size |-> LvSize(vg.size), name |-> "ubuntu-lv",
                          fstype |-> "ext4", mount |-> "/"])
    IN  Value(UNION {{Lv(v, vg_name) :
                         v \in {CreateVolgroup(r, vg_name, part, encrypt)}} :
                     vg_name \in {GuidedVgName({x.name : x \in r.fs.vgs}, 0)}})

\* Faulty variant: the group is made on the /boot partition.
GuidedLvm_OnBoot(m, gap, encrypt) ==
    Value({LvmVolume(p.m, p.boot, encrypt) : p \in {LvmParts(m, gap)}})

\* guided_lvm(gap, lvm_options): the gap is split into the /boot partition and
\* the rest, an unformatted partition that carries the volume group with its
\* one logical volume.
GuidedLvm(m, gap, encrypt) ==
    Value({LvmVolume(p.m, p.m.part, encrypt) : p \in {LvmParts(m, gap)}})

\* start_guided_reformat(target, disk)
StartGuidedReformat(m) ==
    LET r == Reformat(m)
    IN  [r EXCEPT !.gap = LargestGap(r.disk)]

\* start_guided(target, disk), dispatched on the target's type.
StartGuided(m, target) ==
    CASE target.kind = "Reformat" -> StartGuidedReformat(m)
      [] target.kind = "UseGap" ->
            LET out == StartGuidedUseGap(m.disk, target.gap)
            IN  Raise([m EXCEPT !.gap = out.gap], out.raised)
      [] target.kind = "Resize" ->
            LET out == StartGuidedResize(m.disk, target.partition_number,
                                         target.new_size)
            IN  Raise([m EXCEPT !.disk = out.disk, !.gap = out.gap], out.raised)

\* gap = gap.within(); if gap is None: raise Exception(...)
AfterBoot(m) ==
    IF m.raised # "none" THEN m
    ELSE LET gap == Within(m.disk, m.gap)
         IN  IF gap = NoGap
             THEN Raise(m, "failed to locate gap after adding boot")
             ELSE [m EXCEPT !.gap = gap]

\* Faulty variant: a guided(choice) that raises puts the model back as it
\* was before the call.
GuidedChoice_AllOrNothing(d, f, choice, toggle_boot) ==
    LET m0 == [Working(d, f) EXCEPT
                  !.fs.guided_configuration = choice.target.kind]
        Boot(m1) ==
            IF m1.raised = "none" /\ toggle_boot THEN AddBootDisk(m1) ELSE m1
        Payload(mid) ==
            IF mid.raised # "none" THEN mid
            ELSE IF choice.use_lvm
            THEN GuidedLvm(mid, mid.gap, choice.password)
            ELSE GuidedDirect(mid, mid.gap)
        Undo(m) ==
            IF m.raised = "none" THEN m ELSE [m EXCEPT !.disk = d, !.fs = f]
    IN  Value({[mid |-> mid, end |-> Undo(Payload(mid))] :
                  mid \in {AfterBoot(m2) :
                     m2 \in {Boot(m1) :
                        m1 \in {StartGuided(m, choice.target) : m \in {m0}}}}})

\* guided(choice) on the model (d, f); toggle_boot tells whether
\* DeviceAction.TOGGLE_BOOT is among the actions the disk supports.  mid is
\* the record when the layout of the payload begins.
GuidedChoice(d, f, choice, toggle_boot) ==
    LET m0 == [Working(d, f) EXCEPT
                  !.fs.guided_configuration = choice.target.kind]
        Boot(m1) ==
            IF m1.raised = "none" /\ toggle_boot THEN AddBootDisk(m1) ELSE m1
        Payload(mid) ==
            IF mid.raised # "none" THEN mid
            ELSE IF choice.use_lvm
            THEN GuidedLvm(mid, mid.gap, choice.password)
            ELSE GuidedDirect(mid, mid.gap)
    IN  Value({[mid |-> mid, end |-> Payload(mid)] :
                  mid \in {AfterBoot(m2) :
                     m2 \in {Boot(m1) :
                        m1 \in {StartGuided(m, choice.target) : m \in {m0}}}}})

\* The choices: every kind of target on the disk, with or without LVM.
Targets ==
    {[kind |-> "Reformat", gap |-> NoGap, partition_number |-> 0, new_size |-> 0]}
    \cup {[kind |-> "UseGap", gap |-> [offset |-> o, size |-> PartAlign],
           partition_number |-> 0, new_size |-> 0] : o \in Offsets}
    \cup {[kind |-> "Resize", gap |-> NoGap, partition_number |-> n,
           new_size |-> s] : n \in 1..MaxParts + 1, s \in Offsets \ {0}}

\* The volume groups a probe can find on the partitions of a disk: on each
\* partition none or one, under a name of its own; the first partition may be
\* a bootloader partition.
ProbedNames ==
    {<<"ubuntu-vg">>, <<"vg0">>}

ProbedFs(d) ==
    {[NoFs EXCEPT !.vgs = {[name |-> nm[n], device |-> n,
                            size |-> AlignDown(d.parts[n].size - VgOverhead,
                                               LVM_CHUNK_SIZE),
                            encrypt |-> FALSE] : n \in DOMAIN nm},
                  !.boot = bt] :
        nm \in UNION {{f \in [ns -> ProbedNames] :
                          \A a, b \in ns : a # b => f[a] # f[b]} :
                      ns \in SUBSET (1..Len(d.parts))},
        bt \in {{}, {1} \cap (1..Len(d.parts))}}

\* guided() does not look at the estimated minimum sizes: the disks are taken
\* with nearly empty partitions.
InitLayout ==
    /\ InitProbe
    /\ disk \in {d \in Disks : \A i \in 1..Len(d.parts) :
                                  d.parts[i].estimated_min_size = 1}
    /\ gout = NoOut
    /\ fsm \in ProbedFs(disk)
    /\ gret = NoRet
    /\ InitCalc

\* guided(choice), whether it returns or raises, on a model as the probe left
\* it.
GuidedApply(choice, toggle_boot) ==
    /\ gret.call = "none"
    /\ \E out \in {GuidedChoice(disk, fsm, choice, toggle_boot)} :
           /\ disk' = out.end.disk
           /\ fsm' = out.end.fs
           /\ gret' = [call |-> "guided", mode |-> "none",
                       kind |-> choice.target.kind,
                       use_lvm |-> choice.use_lvm, toggle_boot |-> toggle_boot,
                       target |-> choice.target,
                       gap |-> out.mid.gap, mid |-> Numbers(out.mid.disk),
                       raised |-> out.end.raised]
    /\ Still
    /\ UNCHANGED gout

NextLayout ==
    \E target \in Targets, use_lvm, password, toggle_boot \in BOOLEAN :
        GuidedApply([target |-> target, use_lvm |-> use_lvm,
                     password |-> use_lvm /\ password], toggle_boot)

SpecLayout ==
    InitLayout /\ [][NextLayout]_vars

----------------------------------------------------------------------------
\* The unattended layout: ai_data['layout'] is [name, mode], the mode
\* "absent" when the layout has none; "resize_biggest" is a mode the
\* controller does not know.
AiLayouts ==
    [name : {"lvm", "direct"},
     mode : {"absent", "reformat_disk", "use_gap", "resize_biggest"}]

\* layout.get('mode', 'reformat_disk')
ModeOf(layout) ==
    IF layout.mode = "absent" THEN "reformat_disk" ELSE layout.mode

\* Faulty variant: every mode is let through.
ValidateLayoutMode_Lenient(mode) ==
    "none"

\* validate_layout_mode(mode): what it raises.
ValidateLayoutMode(mode) ==
    IF mode \notin {"reformat_disk", "use_gap"} THEN "ValueError" ELSE "none"

\* run_autoinstall_guided(layout) on the model (d, f) with its one disk;
\* boot_nr is boot.can_be_boot_device(disk, with_reformatting=False).  target
\* is the kind of the target chosen, "none" when the method raised before.
RunAutoinstallGuided(d, f, layout, toggle_boot, boot_nr) ==
    LET mode == ModeOf(layout)
        exc == ValidateLayoutMode(mode)
        gap == IF boot_nr THEN LargestGap(d) ELSE NoGap
        Run(target) ==
            [target |-> target.kind,
             out |-> GuidedChoice(d, f, [target |-> target,
                                         use_lvm |-> layout.name = "lvm",
                                         password |-> FALSE], toggle_boot).end]
        Fail(e) ==
            [target |-> "none", out |-> Raise(Working(d, f), e)]
    IN  IF exc # "none" THEN Fail(exc)
        ELSE IF mode = "reformat_disk"
        THEN Run([kind |-> "Reformat", gap |-> NoGap, partition_number |-> 0,
                  new_size |-> 0])
        ELSE IF gap = NoGap
        THEN Fail("no gap found large enough for install")
        ELSE Run([kind |-> "UseGap", gap |-> gap, partition_number |-> 0,
                  new_size |-> 0])

\* convert_autoinstall_config with a layout in ai_data, on a model as the
\* probe left it.
ConvertAutoinstallConfig(layout, toggle_boot, boot_nr) ==
    /\ gret.call = "none"
    /\ \E r \in {RunAutoinstallGuided(disk, fsm, layout, toggle_boot, boot_nr)} :
           /\ disk' = r.out.disk
           /\ fsm' = r.out.fs
           /\ gret' = [NoRet EXCEPT !.call = "run_autoinstall_guided",
                                    !.mode = layout.mode,
                                    !.kind = r.target,
                                    !.use_lvm = layout.name = "lvm",
                                    !.toggle_boot = toggle_boot,
                                    !.raised = r.out.raised]
    /\ Still
    /\ UNCHANGED gout

NextConvert ==
    \E layout \in AiLayouts, toggle_boot, boot_nr \in BOOLEAN :
        ConvertAutoinstallConfig(layout, toggle_boot, boot_nr)

SpecConvert ==
    InitLayout /\ [][NextConvert]_vars

----------------------------------------------------------------------------
\* The size of the logical volume, on volume groups of every size around a
\* whole number of GiB up to MaxVgGiB.
MaxVgGiB ==
    500

MaxOdd ==
    5

VgSizes ==
    {s \in {g * GiB + d : g \in 0..MaxVgGiB, d \in -MaxOdd..MaxOdd} : s >= 0}

InitLv ==
    /\ InitProbe
    /\ disk = NoDisk
    /\ gout = NoOut
    /\ fsm = NoFs
    /\ gret = NoRet
    /\ lv \in {[NoLv EXCEPT !.vg_size = s] : s \in VgSizes}
    /\ scen = NoScen

\* The lines of guided_lvm that choose lv_size from vg.size.
ChooseLvSize ==
    /\ lv.lv_size = -1
    /\ lv' = [lv EXCEPT !.lv_size = LvSize(lv.vg_size)]
    /\ step' = NoStep
    /\ UNCHANGED <<_configured, configured_pc, model, _start_task>>
    /\ UNCHANGED taskvars
    /\ UNCHANGED watchvars
    /\ UNCHANGED <<disk, gout, layoutvars, scen>>

SpecLv ==
    InitLv /\ [][ChooseLvSize]_vars

----------------------------------------------------------------------------
\* The names of the volume groups: the model's volume groups under guided LVM
\* choices, volume groups made under a name the user gives and deletions.
MaxVgs ==
    4

\* The names a user or a probe can bring: names of the sequence, a name of
\* another kind and 'ubuntu-vg-0', which the sequence does not have.
OtherNames ==
    {<<"vg0">>, <<"ubuntu-vg", 0>>} \cup {VgName(i) : i \in 1..MaxVgs - 2}

NamesOf(f) ==
    {v.name : v \in f.vgs}

\* A volume group with nothing known but its name.
Named(name) ==
    [name |-> name, device |-> 0, size |-> 0, encrypt |-> FALSE]

NameStep(call) ==
    /\ step' = [NoStep EXCEPT !.call = call]
    /\ UNCHANGED <<_configured, configured_pc, model, _start_task>>
    /\ UNCHANGED taskvars
    /\ UNCHANGED watchvars
    /\ UNCHANGED <<disk, gout, gret, calcvars>>

\* The lines of guided_lvm that name and make the volume group.
GuidedLvmVolgroup ==
    /\ Cardinality(fsm.vgs) < MaxVgs
    /\ fsm' = [fsm EXCEPT !.vgs = @ \cup {Named(GuidedVgName(NamesOf(fsm), 0))}]
    /\ NameStep("guided_lvm")

\* create_volgroup with a name the user gives: NameConflict when it is in use.
NamedVolgroup(name) ==
    /\ Cardinality(fsm.vgs) < MaxVgs
    /\ name \notin NamesOf(fsm)
    /\ fsm' = [fsm EXCEPT !.vgs = @ \cup {Named(name)}]
    /\ NameStep("create_volgroup")

\* delete_volgroup
DeleteVolgroup(v) ==
    /\ fsm' = [fsm EXCEPT !.vgs = @ \ {v}]
    /\ NameStep("delete_volgroup")

NextNames ==
    \/ GuidedLvmVolgroup
    \/ \E name \in OtherNames : NamedVolgroup(name)
    \/ \E v \in fsm.vgs : DeleteVolgroup(v)

SpecNames ==
    Init /\ [][NextNames]_vars

----------------------------------------------------------------------------
\* v2_guided_GET: the scenarios.  A device of the model is [type, member,
\* size, boot_wr, boot_nr, parts, gap]: member tells that the disk's
\* constructed device is a Raid one of whose subvolumes can be a boot device,
\* boot_wr and boot_nr are boot.can_be_boot_device(device, with_reformatting)
\* for True and False, gap is the size of the largest gap (-1: none) and a
\* partition is [number, size, estimated_min_size, boot_ok], boot_ok being
\* boot.can_be_boot_device(disk, resize_partition=partition,
\* with_reformatting=False).
MaxDisks ==
    2

\* The partitions and the largest gap a device of a size can have: none; a
\* nearly empty partition with a small gap; beside a large gap a nearly empty
\* or a full partition; two nearly empty partitions of one size.
Layouts(size) ==
    {[parts |-> <<>>, gap |-> size]}
    \cup {[parts |-> <<[number |-> 1, size |-> 50 * GiB + PartAlign,
                        estimated_min_size |-> 1, boot_ok |-> FALSE]>>,
           gap |-> 10 * GiB]}
    \cup {[parts |-> <<[number |-> 1, size |-> 100 * GiB + PartAlign,
                        estimated_min_size |-> mn, boot_ok |-> TRUE]>>,
           gap |-> 100 * GiB] :
              mn \in IF size > 200 * GiB THEN {1, 100 * GiB + PartAlign} ELSE {}}
    \cup {[parts |-> [j \in 1..2 |->
                         [number |-> j, size |-> 50 * GiB + PartAlign,
                          estimated_min_size |-> 1, boot_ok |-> TRUE]],
           gap |-> 100 * GiB] : x \in IF size > 200 * GiB THEN {1} ELSE {}}

Devices ==
    UNION {{[type |-> k[1], member |-> k[2], size |-> size, boot_wr |-> b[1],
             boot_nr |-> b[2], parts |-> l.parts, gap |-> l.gap] :
               k \in {<<"disk", FALSE>>, <<"disk", TRUE>>, <<"raid", FALSE>>},
               b \in {<<TRUE, TRUE>>, <<TRUE, FALSE>>, <<FALSE, FALSE>>},
               l \in Layouts(size)} :
           size \in {100 * GiB, 250 * GiB}}

\* calculate_suggested_install_min(): a small and a large install.
InstallMins ==
    {20 * GiB, 120 * GiB}

InitScen ==
    /\ InitProbe
    /\ disk = NoDisk
    /\ gout = NoOut
    /\ fsm = NoFs
    /\ gret = NoRet
    /\ lv = NoLv
    /\ scen \in {[NoScen EXCEPT !.devs = ds, !.install_min = mn] :
                    ds \in UNION {[1..n -> Devices] : n \in 1..MaxDisks},
                    mn \in InstallMins}

\* boot.can_be_boot_device(device, with_reformatting=with_reformatting)
CanBeBootDevice(d, with_reformatting) ==
    IF with_reformatting THEN d.boot_wr ELSE d.boot_nr

\* Faulty variant: a disk under a bootable Raid is listed as well.
GetGuidedDisks_WithMembers(devs, check_boot, with_reformatting) ==
    LET idx == [i \in 1..Len(devs) |-> i]
        Boots(i) == ~check_boot \/ CanBeBootDevice(devs[i], with_reformatting)
        IsRaid(i) == devs[i].type = "raid" /\ Boots(i)
        IsDisk(i) == devs[i].type = "disk" /\ Boots(i)
    IN  SelectSeq(idx, IsRaid) \o SelectSeq(idx, IsDisk)

\* get_guided_disks(check_boot, with_reformatting): the raids, then the
\* disks, each kind in the model's order; by index in devs.
GetGuidedDisks(devs, check_boot, with_reformatting) ==
    LET idx == [i \in 1..Len(devs) |-> i]
        Boots(i) == ~check_boot \/ CanBeBootDevice(devs[i], with_reformatting)
        IsRaid(i) == devs[i].type = "raid" /\ Boots(i)
        IsDisk(i) == /\ devs[i].type = "disk"
                     /\ Boots(i)
                     /\ ~(devs[i].member /\ check_boot)
    IN  SelectSeq(idx, IsRaid) \o SelectSeq(idx, IsDisk)

\* sizes.calculate_guided_resize(estimated_min_size, size, install_min,
\* part_align): the size the install can have when the partition is shrunk to
\* its aligned minimum, -1 (None) when that is less than the install needs.
CalculateGuidedResize(estimated_min_size, size, install_min, part_align) ==
    LET install_max == size - AlignUp(estimated_min_size, part_align)
    IN  IF install_max < install_min THEN -1 ELSE install_max

\* The concatenation of the sequences of a sequence.
RECURSIVE Flatten(_)
Flatten(ss) ==
    IF ss = <<>> THEN <<>> ELSE Head(ss) \o Flatten(Tail(ss))

Scenario(size, kind, i, number) ==
    [size |-> size, kind |-> kind, disk |-> i, number |-> number]

\* Faulty variant: a scenario goes before the listed ones of its size.
Insort_BeforeEqual(sorted, x) ==
    LET k == Cardinality({j \in 1..Len(sorted) : sorted[j].size > x.size})
    IN  SubSeq(sorted, 1, k) \o <<x>> \o SubSeq(sorted, k + 1, Len(sorted))

\* scenarios.sort(reverse=True, key=lambda x: x[0]) is stable: a scenario
\* goes behind the ones of at least its size that were appended before it.
Insort(sorted, x) ==
    LET k == Cardinality({j \in 1..Len(sorted) : sorted[j].size >= x.size})
    IN  SubSeq(sorted, 1, k) \o <<x>> \o SubSeq(sorted, k + 1, Len(sorted))

RECURSIVE SortScenarios(_, _)
SortScenarios(sorted, rest) ==
    IF rest = <<>> THEN sorted
    ELSE SortScenarios(Insort(sorted, Head(rest)), Tail(rest))

\* Faulty variant: the UseGap pass goes over the disks of the Reformat pass.
UseGapDisks_WithReformatting(devs) ==
    GetGuidedDisks(devs, TRUE, TRUE)

\* for disk in self.get_guided_disks(with_reformatting=False)
UseGapDisks(devs) ==
    GetGuidedDisks(devs, TRUE, FALSE)

\* The three passes of v2_guided_GET and the sort.
Scenarios(devs, install_min) ==
    LET reformat == GetGuidedDisks(devs, TRUE, TRUE)
        use_gap == UseGapDisks(devs)
        resize == GetGuidedDisks(devs, FALSE, FALSE)
        Reformats(i) ==
            IF devs[i].size >= install_min
            THEN <<Scenario(devs[i].size, "Reformat", i, 0)>> ELSE <<>>
        UseGaps(i) ==
            IF Len(devs[i].parts) < 1 THEN <<>>
            ELSE IF devs[i].gap # -1 /\ devs[i].gap >= install_min
            THEN <<Scenario(devs[i].gap, "UseGap", i, 0)>> ELSE <<>>
        Resizes(i) ==
            LET Vals(p) == CalculateGuidedResize(p.estimated_min_size, p.size,
                                                 install_min, PartAlign)
                One(j) == IF Vals(devs[i].parts[j]) = -1 THEN <<>>
                          ELSE IF ~devs[i].parts[j].boot_ok THEN <<>>
                          ELSE <<Scenario(Vals(devs[i].parts[j]), "Resize", i,
                                          devs[i].parts[j].number)>>
            IN  Flatten([j \in 1..Len(devs[i].parts) |-> One(j)])
    IN  SortScenarios(<<>>,
            Flatten([k \in 1..Len(reformat) |-> Reformats(reformat[k])])
            \o Flatten([k \in 1..Len(use_gap) |-> UseGaps(use_gap[k])])
            \o Flatten([k \in 1..Len(resize) |-> Resizes(resize[k])]))

\* v2_guided_GET from "scenarios = []" on, the probe being over.
V2GuidedGET ==
    /\ ~scen.called
    /\ scen' = [scen EXCEPT !.called = TRUE,
                            !.scenarios = Scenarios(scen.devs, scen.install_min)]
    /\ step' = NoStep
    /\ UNCHANGED <<_configured, configured_pc, model, _start_task>>
    /\ UNCHANGED taskvars
    /\ UNCHANGED watchvars
    /\ UNCHANGED <<disk, gout, layoutvars, lv>>

SpecScen ==
    InitScen /\ [][V2GuidedGET]_vars

----------------------------------------------------------------------------
\* The API of the controller: status queries, guided choices, reset and the
\* unattended path.

\* self._errors[restricted][1].ref(): the reference of the report recorded for
\* a class, identified by the class and the run that recorded it.
Ref(errs, restricted) ==
    [restricted |-> restricted, run |-> errs[restricted].run]

\* Faulty variant: the status is FAILED when the safe class failed.
ProbeResponse_SafeClass(w, wait) ==
    IF (w.pt = 0 \/ w.runs[w.pt].state # "done") /\ ~wait
    THEN [NoStep EXCEPT !.status = "PROBING"]
    ELSE IF FALSE \in DOMAIN w.errors
         THEN [NoStep EXCEPT !.status = "FAILED",
                             !.error_report = Ref(w.errors, FALSE)]
         ELSE NoStep

\* _probe_response(wait, resp_cls), after its awaits when wait is set: the
\* response, or None (status "none").
ProbeResponse(w, wait) ==
    IF (w.pt = 0 \/ w.runs[w.pt].state # "done") /\ ~wait
    THEN [NoStep EXCEPT !.status = "PROBING"]
    ELSE IF TRUE \in DOMAIN w.errors
         THEN [NoStep EXCEPT !.status = "FAILED",
                             !.error_report = Ref(w.errors, TRUE)]
         ELSE NoStep

\* full_probe_error()
FullProbeError(errs) ==
    IF FALSE \in DOMAIN errs THEN Ref(errs, FALSE) ELSE NoRef

\* _done_response()
DoneResponse(w) ==
    [NoStep EXCEPT !.status = "DONE", !.error_report = FullProbeError(w.errors)]

\* What GET(wait) and the other getters return.
Response(w, wait) ==
    LET probe_resp == ProbeResponse(w, wait)
    IN  IF probe_resp.status # "none" THEN probe_resp ELSE DoneResponse(w)

\* await self._start_task; await self._probe_task.wait() has returned: the
\* start task and an orchestration run are done.
WaitOver ==
    /\ _start_task = "done"
    /\ \E r \in DOMAIN runs : runs[r].state = "done"

\* GET(wait): with wait set, the step is the one in which the handler returns.
GET(wait) ==
    /\ wait => WaitOver
    /\ step' = [Response(World, wait) EXCEPT !.call = "GET", !.wait = wait]
    /\ UNCHANGED <<_configured, configured_pc, model, _start_task>>
    /\ UNCHANGED taskvars
    /\ UNCHANGED watchvars
    /\ UNCHANGED diskvars

\* Faulty variant: the privileged-class failure is looked at first.
AutoinstallRaise_PrivilegedFirst(errs) ==
    IF TRUE \in DOMAIN errs THEN errs[TRUE].exc
    ELSE IF FALSE \in DOMAIN errs THEN errs[FALSE].exc
    ELSE "none"

\* if False in self._errors: raise self._errors[False][0]
\* if True in self._errors: raise self._errors[True][0]
AutoinstallRaise(errs) ==
    IF FALSE \in DOMAIN errs THEN errs[FALSE].exc
    ELSE IF TRUE \in DOMAIN errs THEN errs[TRUE].exc
    ELSE "none"

\* guided(choice) having run to its end: the model carries one more guided
\* mutation; self._configured is not looked at.
GuidedModel(m) ==
    [m EXCEPT !.edits = @ + 1]

\* self.model.reset(): every mutation is discarded and the model rebuilt from
\* the snapshot it has; self._configured is not looked at.
ResetModel(m) ==
    [m EXCEPT !.edits = 0]

\* Faulty variant: the bootloader partition is not asked for.
AutoinstallChecks_RootOnly(m, needs_bootloader_partition) ==
    IF m.edits = 0 THEN "did not mount root" ELSE "none"

\* if not self.model.is_root_mounted(): raise ...
\* if self.model.needs_bootloader_partition(): raise ...
\* The root is mounted once the model carries a guided mutation.
AutoinstallChecks(m, needs_bootloader_partition) ==
    IF m.edits = 0 THEN "did not mount root"
    ELSE IF needs_bootloader_partition
    THEN "did not create needed bootloader partition"
    ELSE "none"

\* What ai_data holds: no layout, a layout that guided() lays out, or a
\* layout that run_autoinstall_guided refuses before it touches the model.
AiData ==
    {"no layout", "layout", "unknown mode"}

\* apply_autoinstall_config, from the return of its two awaits on: a recorded
\* probe failure is raised; otherwise the configuration is converted (layout:
\* a guided choice is applied) and the result checked for a mounted root and
\* for a bootloader partition, needs_bootloader_partition being what
\* model.needs_bootloader_partition() answers when it is asked.
ApplyAutoinstallConfig(ai_data, needs_bootloader_partition) ==
    /\ WaitOver
    /\ ai_data = "layout" => model.edits < MaxEdits
    /\ LET exc == AutoinstallRaise(_errors)
           m == IF exc = "none" /\ ai_data = "layout" THEN GuidedModel(model)
                ELSE model
       IN  /\ needs_bootloader_partition =>
                (exc = "none" /\ ai_data # "unknown mode" /\ m.edits > 0)
           /\ model' = m
           /\ step' = [NoStep EXCEPT
                  !.call = "apply_autoinstall_config",
                  !.needs_bootloader_partition = needs_bootloader_partition,
                  !.raised =
                      IF exc # "none" THEN exc
                      ELSE IF ai_data = "unknown mode" THEN "ValueError"
                      ELSE AutoinstallChecks(m, needs_bootloader_partition)]
    /\ UNCHANGED <<_configured, configured_pc, _start_task>>
    /\ UNCHANGED taskvars
    /\ UNCHANGED watchvars
    /\ UNCHANGED diskvars

\* guided_POST (v2 = FALSE) and v2_guided_POST (v2 = TRUE) applying a choice
\* to a model that has disks: guided(), then the response.
Guided(v2) ==
    /\ model.probe_data # 0
    /\ model.edits < MaxEdits
    /\ model' = GuidedModel(model)
    /\ step' = [(IF v2 THEN Response(World, FALSE) ELSE DoneResponse(World))
                    EXCEPT !.call = "guided_POST"]
    /\ UNCHANGED <<_configured, configured_pc, _start_task>>
    /\ UNCHANGED taskvars
    /\ UNCHANGED watchvars
    /\ UNCHANGED diskvars

\* reset_POST (v2 = FALSE: it goes on as GET(wait) with a true wait, and
\* returns in this step only when it does not have to wait) and v2_reset_POST
\* (v2 = TRUE: it goes on as a GET that does not wait).
Reset(v2) ==
    /\ model' = ResetModel(model)
    /\ step' = IF v2 \/ WaitOver
               THEN [Response(World, ~v2) EXCEPT !.call = "reset_POST", !.wait = ~v2]
               ELSE [NoStep EXCEPT !.call = "reset_POST", !.wait = TRUE]
    /\ UNCHANGED <<_configured, configured_pc, _start_task>>
    /\ UNCHANGED taskvars
    /\ UNCHANGED watchvars
    /\ UNCHANGED diskvars

----------------------------------------------------------------------------
\* The steps of the controller by itself: nothing in it cancels a task from
\* outside (the only cancellation is that of wait_for on a timeout).
NextProbe ==
    \/ Start
    \/ \E r \in DOMAIN runs, report \in BOOLEAN : ProbeBegin(r, report)
    \/ \E o \in DOMAIN onces, res \in {"ok", "raise"} : CallReturn(o, res)
    \/ \E r \in DOMAIN runs, report \in BOOLEAN : ProbeResume(r, report)
    \/ \E r \in DOMAIN runs, report \in BOOLEAN : Timeout(r, report)
    \/ DeviceEvent
    \/ \E settled \in BOOLEAN : UdevEvent(settled)
    \/ Reattach
    \/ ConfiguredBegin
    \/ ConfiguredEnd

\* A step of a run of _probe that the event loop takes by itself: the task is
\* scheduled, it wakes up from wait_for, or the timer of wait_for expires.
RunStep ==
    \E r \in DOMAIN runs, report \in BOOLEAN :
        \/ ProbeBegin(r, report)
        \/ ProbeResume(r, report)
        \/ Timeout(r, report)

\* A run can take a step: its task has not run yet, or it waits in wait_for
\* on a once-task that is done or whose timer runs.
RunReady ==
    \E r \in DOMAIN runs :
        \/ runs[r].state = "created"
        \/ /\ runs[r].state = "waiting"
           /\ runs[r].once # 0
           /\ onces[runs[r].once].state \in {"done", "pending"}

\* The controller by itself under the event loop: the timer of a settle delay
\* fires, and a run that can take a step takes one (weak fairness of RunStep,
\* written with RunReady for the condition under which it can be taken).
SpecFair ==
    /\ Init /\ [][NextProbe]_vars
    /\ WF_vars(Reattach)
    /\ []<>~RunReady \/ []<><<RunStep>>_vars

\* The controller with tasks cancelled from outside (the loop shutting down).
Next ==
    \/ NextProbe
    \/ \E r \in DOMAIN runs : CancelProbe(r)
    \/ \E o \in DOMAIN onces : CancelProbeOnce(o)

Spec ==
    Init /\ [][Next]_vars

\* The probe machinery with a client that applies guided choices and resets.
NextGuided ==
    \/ NextProbe
    \/ \E v2 \in BOOLEAN : Guided(v2)
    \/ \E v2 \in BOOLEAN : Reset(v2)

SpecGuided ==
    Init /\ [][NextGuided]_vars

\* The probe machinery with a client that asks for the storage status and with
\* the unattended path.
NextQuery ==
    \/ NextProbe
    \/ \E wait \in BOOLEAN : GET(wait)
    \/ \E ai_data \in AiData, needs_bootloader_partition \in BOOLEAN :
          ApplyAutoinstallConfig(ai_data, needs_bootloader_partition)

SpecQuery ==
    Init /\ [][NextQuery]_vars

\* The controller, tasks cancelled from outside included, with a client that
\* asks for the storage status.
NextStatus ==
    \/ Next
    \/ \E wait \in BOOLEAN : GET(wait)

SpecStatus ==
    Init /\ [][NextStatus]_vars

----------------------------------------------------------------------------
\* Shorthands of the properties below.

\* The once-tasks run r started.
OncesOf(r) ==
    {o \in DOMAIN onces : onces[o].run = r}

\* This step is the return of the external call of once-task o.
CallReturns(o) ==
    /\ onces[o].call = "inflight"
    /\ o \in DOMAIN onces'
    /\ onces'[o].call = "returned"

\* This step is _udev_event finding udev settled: the queue is drained and a
\* start of the orchestration run requested.
SettledTrigger ==
    queued > 0 /\ queued' = 0

----------------------------------------------------------------------------
\* C1: once configured() has set _configured, the return of an external probe
\* call, also of one that was in flight when configured() was invoked, leaves
\* the model as it was read just before.
C1_ConfiguredProbeKeepsModel ==
    [][(_configured /\ \E o \in DOMAIN onces : CallReturns(o)) => model' = model]_vars

\* The external call of a probe execution was in flight when configured() was
\* invoked, it returned a snapshot afterwards and the snapshot is not the
\* model's.
C1_Witness ==
    /\ _configured
    /\ \E o \in DOMAIN onces :
          /\ ~onces[o].cfg_at_call
          /\ onces[o].outcome = "ok"
          /\ model.probe_data < o

\* C2: at most one _probe task and at most one _probe_once task is not done.
C2_SingleInstance ==
    /\ Cardinality({r \in DOMAIN runs : runs[r].state # "done"}) <= 1
    /\ Cardinality({o \in DOMAIN onces : onces[o].state # "done"}) <= 1

\* A device event asked for a start while a run was waiting on its second
\* attempt.
C2_Witness ==
    /\ log = "skipped"
    /\ \E r \in DOMAIN runs :
          /\ runs[r].state = "waiting"
          /\ runs[r].idx = 2
          /\ onces[runs[r].once].state = "pending"

\* C3: in every run the safe class (restricted = FALSE) is attempted first, the
\* privileged class only after the safe attempt of the same run has failed
\* (raised or timed out) and is done; no class is attempted after a success,
\* and a run makes at most two attempts.
C3_SafeThenPrivileged ==
    \A r \in DOMAIN runs :
        /\ Cardinality(OncesOf(r)) <= 2
        /\ Cardinality({o \in OncesOf(r) : onces[o].state # "done"}) <= 1
        /\ \A o \in OncesOf(r) :
              /\ ~onces[o].restricted => \A s \in OncesOf(r) : o <= s
              /\ onces[o].restricted =>
                    \E s \in OncesOf(r) :
                        /\ s < o
                        /\ ~onces[s].restricted
                        /\ onces[s].state = "done"
                        /\ \/ onces[s].outcome = "exc"
                           \/ onces[s].outcome = "cancelled" /\ onces[s].why = "timeout"
              /\ onces[o].outcome = "ok" => \A s \in OncesOf(r) : s <= o

\* A run whose safe attempt failed and whose privileged attempt succeeded.
C3_Witness ==
    \E r \in DOMAIN runs : \E o \in OncesOf(r) :
        /\ onces[o].restricted
        /\ onces[o].outcome = "ok"
        /\ runs[r].outcome = "returned"

\* The exception a failed once-task o brought into the try block of _probe.
ExcOf(o) ==
    IF onces[o].why = "timeout" THEN "TimeoutError" ELSE "Exception"

\* C4 as stated: every failure (timeout or exception) of an attempt that the
\* run has handled is recorded in _errors under the attempt's class.
C4_EveryFailureRecorded ==
    LET r == LastBegun(runs)
    IN  r # 0 =>
            \A o \in OncesOf(r) :
                onces[o].report # "none" => onces[o].restricted \in DOMAIN _errors

\* C4 amended: a handled failure is recorded under its class exactly when
\* make_apport_report returned a report; with or without a report the run goes
\* on with the next class, and after the last class it returns normally.
C4_FailureRecordedWhenReported ==
    LET r == LastBegun(runs)
    IN  r # 0 =>
            \A o \in OncesOf(r) :
                onces[o].report # "none" =>
                    /\ onces[o].report = "made" =>
                          /\ onces[o].restricted \in DOMAIN _errors
                          /\ _errors[onces[o].restricted] = [exc |-> ExcOf(o), run |-> r]
                    /\ onces[o].report = "None" =>
                          onces[o].restricted \notin DOMAIN _errors
                    /\ ~onces[o].restricted =>
                          \E s \in OncesOf(r) : s > o /\ onces[s].restricted
                    /\ onces[o].restricted =>
                          runs[r].state = "done" /\ runs[r].outcome = "returned"

\* Both classes failed, the safe one by timeout, and both failures are recorded.
C4_Witness ==
    /\ DOMAIN _errors = {FALSE, TRUE}
    /\ _errors[FALSE].exc = "TimeoutError"
    /\ _errors[TRUE].exc = "Exception"
    /\ runs[LastBegun(runs)].outcome = "returned"

C7_RejectedStartLeavesRun ==
    [][(SettledTrigger /\ Busy(runs, _probe_task)) =>
           /\ log' = "skipped"
           /\ runs' = runs
           /\ onces' = onces
           /\ _probe_once_task' = _probe_once_task
           /\ _errors' = _errors
           /\ model' = model]_vars

\* After a rejected start the run went on to succeed and its snapshot is the
\* model.
C7_Witness ==
    /\ log = "skipped"
    /\ _probe_task # 0
    /\ runs[_probe_task].outcome = "returned"
    /\ runs[_probe_task].once # 0
    /\ onces[runs[_probe_task].once].outcome = "ok"
    /\ model.probe_data = runs[_probe_task].once

\* C8: a run cancelled while it awaits an attempt ends cancelled at once: the
\* attempt it awaited is its last one and no failure is recorded for that
\* attempt's class.
C8_CancellationPropagates ==
    \A r \in DOMAIN runs :
        (runs[r].cancel_req /\ runs[r].once # 0) =>
            /\ runs[r].state = "done"
            /\ runs[r].outcome = "cancelled"
            /\ \A o \in OncesOf(r) : o <= runs[r].once
            /\ onces[runs[r].once].report = "none"
            /\ r = LastBegun(runs) => ProbeClasses[runs[r].idx] \notin DOMAIN _errors

\* A run was cancelled while it awaited the privileged attempt, after the safe
\* one had failed and been recorded.
C8_Witness ==
    \E r \in DOMAIN runs :
        /\ runs[r].cancel_req
        /\ runs[r].idx = 2
        /\ onces[runs[r].once].why = "parent"
        /\ DOMAIN _errors = {FALSE}

\* C9 as stated (second half): a run ends cancelled only when the run itself
\* was cancelled; the cancellation of its once-task alone does not end it.
C9_OnceCancelKeepsRun ==
    \A r \in DOMAIN runs : runs[r].outcome = "cancelled" => runs[r].cancel_req

\* C9 amended: cancelling a run that waits on a once-task cancels that
\* once-task too; cancelling the once-task alone ends the run that waits on it
\* as well, once the run wakes up: it ends cancelled, handles no failure for
\* the attempt and starts no further attempt.
C9_CancellationDownAndUp ==
    /\ \A r \in DOMAIN runs :
           (runs[r].cancel_req /\ runs[r].once # 0) =>
               onces[runs[r].once].state = "done"
    /\ \A o \in DOMAIN onces :
           (onces[o].why = "external" /\ onces[o].run \in DOMAIN runs) =>
               LET r == onces[o].run
               IN  /\ runs[r].once = o
                   /\ \A s \in OncesOf(r) : s <= o
                   /\ onces[o].report = "none"
                   /\ runs[r].state = "done" => runs[r].outcome = "cancelled"

\* A once-task was cancelled alone and the run waiting on it ended cancelled
\* without having been cancelled itself.
C9_Witness ==
    \E o \in DOMAIN onces :
        /\ onces[o].why = "external"
        /\ onces[o].run \in DOMAIN runs
        /\ runs[onces[o].run].outcome = "cancelled"
        /\ ~runs[onces[o].run].cancel_req

\* C10: an attempt whose timer expired is a handled failure of its class: its
\* once-task is cancelled, the next class is attempted (after the last class
\* the run returns), and the snapshot of the abandoned call never becomes the
\* model, whenever the call returns.
C10_TimeoutIsFailure ==
    \A o \in DOMAIN onces :
        onces[o].why = "timeout" =>
            /\ onces[o].state = "done"
            /\ onces[o].outcome = "cancelled"
            /\ onces[o].report # "none"
            /\ model.probe_data # o
            /\ onces[o].run \in DOMAIN runs =>
                  LET r == onces[o].run
                  IN  /\ ~onces[o].restricted =>
                            \E s \in OncesOf(r) : s > o /\ onces[s].restricted
                      /\ onces[o].restricted =>
                            runs[r].state = "done" /\ runs[r].outcome = "returned"

\* The external call of a timed-out attempt returned later, before
\* configured(), while the run went on with the privileged class.
C10_Witness ==
    /\ ~_configured
    /\ \E o \in DOMAIN onces :
          /\ onces[o].why = "timeout"
          /\ onces[o].call = "returned"
          /\ ~onces[o].restricted
          /\ onces[o].run \in DOMAIN runs
          /\ runs[onces[o].run].idx = 2

----------------------------------------------------------------------------
\* C11: a callback that finds udev not settled requests no probe start, detaches
\* the watcher and schedules one reattach; every timer that fires reattaches a
\* detached watcher; and as long as configured() has not been invoked, after
\* start exactly one of the two holds: the watcher is attached, or it is
\* detached with exactly one reattach pending (so it is never attached twice
\* and never left detached).
C11_DetachReattachPaired ==
    [][/\ (listening /\ ~listening' /\ configured_pc' = configured_pc) =>
              /\ timers' = timers + 1
              /\ queued' = queued
              /\ UNCHANGED taskvars
       /\ timers' # timers /\ timers' # timers + 1 =>
              /\ timers' = timers - 1
              /\ ~_configured => ~listening
              /\ listening'
       /\ ~_configured' =>
              timers' + (IF listening' THEN 1 ELSE 0)
                  = (IF _start_task' = "done" THEN 1 ELSE 0)]_vars

\* Before configured(), the watcher was detached by an unsettled callback and
\* is attached again, the events still waiting to be read.
C11_Witness ==
    /\ ~_configured
    /\ log = "waiting"
    /\ listening
    /\ timers = 0
    /\ queued > 0

\* C12: a callback that finds udev settled reads every queued event and asks
\* for one start of the orchestration run, however many events it read: when
\* no run is active exactly one run is created and becomes the coordinator's
\* task; when a run is active nothing of the tasks changes, no run is created
\* and nothing is raised out of the callback.
C12_SettledDrainsAndStartsOnce ==
    [][SettledTrigger =>
           /\ queued' = 0
           /\ step'.received = queued
           /\ step'.raised = "none"
           /\ IF Busy(runs, _probe_task)
              THEN /\ log' = "skipped"
                   /\ UNCHANGED taskvars
              ELSE /\ log' = "triggered"
                   /\ _probe_task' = MaxOf(DOMAIN runs) + 1
                   /\ DOMAIN runs' \ DOMAIN runs = {_probe_task'}
                   /\ runs'[_probe_task'] = NewRun
                   /\ \A r \in DOMAIN runs' \cap DOMAIN runs : runs'[r] = runs[r]
                   /\ UNCHANGED <<onces, _probe_once_task, _errors>>]_vars

\* One callback read two events while a run was active, and the run is still
\* the coordinator's task.
C12_Witness ==
    /\ step.received = 2
    /\ log = "skipped"
    /\ Busy(runs, _probe_task)

----------------------------------------------------------------------------
\* C13: once configured() has been invoked, a guided choice or a reset leaves
\* the model as it was.
C13_ConfiguredModelFrozen ==
    [][(_configured /\ step'.call \in {"guided_POST", "reset_POST"}) =>
           model' = model]_vars

\* C14: when the external call of a once-task that was not cancelled returns a
\* snapshot and configured() has not been invoked, the model of the next state
\* is the one built from that snapshot and nothing else: the guided mutations
\* applied since the previous snapshot are gone, all of them in the same step.
C14_SnapshotReplacesModel ==
    [][\A o \in DOMAIN onces :
           (CallReturns(o) /\ ~_configured /\ onces'[o].outcome = "ok") =>
               /\ model' = [probe_data |-> o, edits |-> 0]
               /\ step'.discarded = model.edits]_vars

\* A second snapshot has just replaced a model that carried guided mutations.
C14_Witness ==
    /\ ~_configured
    /\ step.discarded > 0
    /\ model.edits = 0
    /\ model.probe_data >= 2

\* C15 as stated: no call raises to its caller an exception recorded in
\* _errors.
C15_NeverReRaised ==
    step.raised \notin {_errors[k].exc : k \in DOMAIN _errors}

\* C15 amended: the storage queries raise nothing; a recorded failure shows in
\* their response only as the reference of its report (the privileged class's
\* with status FAILED, the safe class's with status DONE).  The unattended path
\* raises the recorded exception itself: the safe class's when there is one,
\* else the privileged class's, and no probe exception when none is recorded.
C15_RaisedOnlyByUnattendedPath ==
    /\ step.call = "GET" =>
           /\ step.raised = "none"
           /\ step.status = "PROBING" => step.error_report = NoRef
           /\ step.status = "FAILED" =>
                  /\ TRUE \in DOMAIN _errors
                  /\ step.error_report = [restricted |-> TRUE, run |-> _errors[TRUE].run]
           /\ step.status = "DONE" =>
                  step.error_report =
                      IF FALSE \in DOMAIN _errors
                      THEN [restricted |-> FALSE, run |-> _errors[FALSE].run]
                      ELSE NoRef
    /\ step.call = "apply_autoinstall_config" =>
           /\ FALSE \in DOMAIN _errors => step.raised = _errors[FALSE].exc
           /\ (FALSE \notin DOMAIN _errors /\ TRUE \in DOMAIN _errors) =>
                  step.raised = _errors[TRUE].exc
           /\ DOMAIN _errors = {} => step.raised \notin {"Exception", "TimeoutError"}

\* Both classes failed in different ways and the unattended path raised the
\* safe class's exception.
C15_Witness ==
    /\ step.call = "apply_autoinstall_config"
    /\ DOMAIN _errors = {FALSE, TRUE}
    /\ _errors[FALSE].exc = "TimeoutError"
    /\ _errors[TRUE].exc = "Exception"
    /\ step.raised = "TimeoutError"

----------------------------------------------------------------------------
\* Shorthands of the properties of start_guided.

\* The indices in ps of the partitions numbered number.
Numbered(ps, number) ==
    {i \in 1..Len(ps) : ps[i].number = number}

\* n rounded up to a multiple of a, said without AlignUp.
Aligned(n, a) ==
    CHOOSE k \in 0..(n + a) : k % a = 0 /\ k >= n /\ k - n < a

\* C17: a Resize target that names a partition of the disk and whose aligned
\* requested size is at most the partition's size (equal included) is applied
\* without an error: the partition has the aligned size and is marked for
\* resize, the other partitions are as before, and the gap returned is a gap
\* of the disk that starts at the partition's new end.  No Resize target at
\* all ends in 'gap not found after resize'.
C17_ResizeWithinSizeSucceeds ==
    [][gout'.call = "resize" =>
           /\ gout'.raised # "InvariantViolation"
           /\ \A i \in Numbered(disk.parts, gout'.number) :
                  LET aligned == Aligned(gout'.new_size, disk.part_align)
                  IN  aligned <= disk.parts[i].size =>
                          /\ gout'.raised = "none"
                          /\ disk'.parts[i] =
                                 [disk.parts[i] EXCEPT !.size = aligned, !.resize = TRUE]
                          /\ \A j \in 1..Len(disk.parts) \ {i} :
                                 disk'.parts[j] = disk.parts[j]
                          /\ gout'.gap \in Gaps(disk')
                          /\ gout'.gap.offset = disk.parts[i].offset + aligned]_vars

\* A Resize target asked for the size the partition had, with no free space
\* behind it: the partition is marked for resize and the gap returned is
\* empty.
C17_Witness ==
    /\ gout.call = "resize"
    /\ gout.raised = "none"
    /\ gout.gap.size = 0
    /\ \E i \in Numbered(disk.parts, gout.number) :
           /\ disk.parts[i].resize
           /\ disk.parts[i].size = gout.new_size
           /\ gout.gap.offset = disk.parts[i].offset + disk.parts[i].size

\* C18: a Resize target whose number no partition of the disk has fails with
\* the ValueError of get_partition (NotFound), one whose aligned requested size
\* exceeds the partition's size with 'too large' (InvalidGeometry); in both
\* cases the disk, with every partition's size and resize flag, is as before.
C18_ResizeFailsBeforeMutation ==
    [][gout'.call = "resize" =>
           /\ Numbered(disk.parts, gout'.number) = {} =>
                  /\ gout'.raised = "NotFound"
                  /\ disk' = disk
           /\ \A i \in Numbered(disk.parts, gout'.number) :
                  Aligned(gout'.new_size, disk.part_align) > disk.parts[i].size =>
                      /\ gout'.raised = "InvalidGeometry"
                      /\ disk' = disk]_vars

\* A Resize target that asked for one byte more than the partition's size was
\* refused as too large, and the partition is not marked.
C18_Witness ==
    /\ gout.call = "resize"
    /\ gout.raised = "InvalidGeometry"
    /\ \E i \in Numbered(disk.parts, gout.number) :
           /\ ~disk.parts[i].resize
           /\ gout.new_size = disk.parts[i].size + 1

\* C19: no partition is smaller than its estimated minimum size.
C19_NeverBelowMinimumSize ==
    \A i \in 1..Len(disk.parts) :
        disk.parts[i].size >= disk.parts[i].estimated_min_size

----------------------------------------------------------------------------
\* Shorthands of the properties of guided(choice).

\* The partitions made by the layout of the payload, by index.
NewParts ==
    {i \in 1..Len(disk.parts) : disk.parts[i].number \notin gret.mid}

\* The filesystems on a device.
FsOn(dev) ==
    {x \in fsm.filesystems : x.dev = dev}

\* The gap guided() laid the payload out in is free of the partitions that
\* were there when the layout began.
GapWasFree ==
    \A i \in 1..Len(disk.parts) :
        disk.parts[i].number \in gret.mid =>
            \/ disk.parts[i].offset + disk.parts[i].size <= gret.gap.offset
            \/ disk.parts[i].offset >= gret.gap.offset + gret.gap.size

\* C21: when guided(choice) returns, the payload lies in the gap re-derived
\* after the boot step, which is free of the older partitions.  Without LVM
\* one partition was made, over the whole gap, with the root filesystem; with
\* LVM two were: the /boot partition of the fixed size at the head of the gap
\* and an unformatted one over the rest, which carries exactly one volume
\* group with exactly one logical volume, mounted at the root.  The root is
\* mounted in both cases.
C21_GuidedLayout ==
    (gret.call = "guided" /\ gret.raised = "none") =>
        /\ IsRootMounted(fsm)
        /\ GapWasFree
        /\ IF ~gret.use_lvm
           THEN \E i \in NewParts :
                    /\ NewParts = {i}
                    /\ disk.parts[i].offset = gret.gap.offset
                    /\ disk.parts[i].size = gret.gap.size
                    /\ FsOn(PartDev(disk.parts[i].number)) =
                           {[dev |-> PartDev(disk.parts[i].number),
                             fstype |-> "ext4", mount |-> "/"]}
           ELSE \E b, r \in NewParts :
                    /\ NewParts = {b, r}
                    /\ b # r
                    /\ disk.parts[b].offset = gret.gap.offset
                    /\ disk.parts[b].size >= BootfsSize
                    /\ disk.parts[b].size < BootfsSize + disk.part_align
                    /\ FsOn(PartDev(disk.parts[b].number)) =
                           {[dev |-> PartDev(disk.parts[b].number),
                             fstype |-> "ext4", mount |-> "/boot"]}
                    /\ disk.parts[r].offset =
                           disk.parts[b].offset + disk.parts[b].size
                    /\ disk.parts[r].size = gret.gap.size - disk.parts[b].size
                    /\ FsOn(PartDev(disk.parts[r].number)) = {}
                    /\ \E v \in fsm.vgs :
                           /\ {w \in fsm.vgs :
                                  w.device \in {disk.parts[b].number,
                                                disk.parts[r].number}} = {v}
                           /\ v.device = disk.parts[r].number
                           /\ \E l \in fsm.lvs :
                                  /\ {k \in fsm.lvs : k.vg = v.name} = {l}
                                  /\ l.size <= v.size
                                  /\ \E x \in FsOn(LvDev(v.name, l.name)) :
                                         x.mount = "/"

\* An LVM layout in the gap a resize freed, behind the bootloader partition
\* the call added.
C21_Witness ==
    /\ gret.call = "guided"
    /\ gret.raised = "none"
    /\ gret.kind = "Resize"
    /\ gret.use_lvm
    /\ gret.toggle_boot
    /\ Cardinality(fsm.boot) = 1
    /\ Cardinality(NewParts) = 2
    /\ Len(disk.parts) = 4

----------------------------------------------------------------------------
\* The largest multiple of the chunk size that is not above n.
RoundedDown(n) ==
    CHOOSE k \in n - LVM_CHUNK_SIZE + 1..n : k % LVM_CHUNK_SIZE = 0

\* C22: the size chosen for the logical volume of a group of size S is S
\* below 10 GiB, 10 GiB from there to below 20 GiB, half of S from there to
\* below 200 GiB and 100 GiB from there on, rounded down to the chunk size;
\* 5, 15, 100 and 500 GiB give 5, 10, 50 and 100 GiB; the size is never above
\* S and does not get smaller when S grows by one MiB or by one GiB.
C22_LvSizePolicy ==
    lv.lv_size # -1 =>
        LET S == lv.vg_size
        IN  /\ S < 10 * GiB => lv.lv_size = RoundedDown(S)
            /\ (10 * GiB <= S /\ S < 20 * GiB) => lv.lv_size = RoundedDown(10 * GiB)
            /\ (20 * GiB <= S /\ S < 200 * GiB) => lv.lv_size = RoundedDown(S \div 2)
            /\ S >= 200 * GiB => lv.lv_size = RoundedDown(100 * GiB)
            /\ S = 5 * GiB => lv.lv_size = 5 * GiB
            /\ S = 15 * GiB => lv.lv_size = 10 * GiB
            /\ S = 100 * GiB => lv.lv_size = 50 * GiB
            /\ S = 500 * GiB => lv.lv_size = 100 * GiB
            /\ lv.lv_size <= S
            /\ lv.lv_size <= LvSize(S + 1)
            /\ lv.lv_size <= LvSize(S + GiB)

\* Half of a group a little above 100 GiB, rounded down to the chunk.
C22_Witness ==
    /\ lv.vg_size = 100 * GiB + 3
    /\ lv.lv_size = 50 * GiB

----------------------------------------------------------------------------
\* The names of the sequence ubuntu-vg, ubuntu-vg-1, ... in use.
SequenceNames(f) ==
    {nm \in NamesOf(f) : \E i \in 0..MaxVgs : nm = VgName(i)}

\* C23: no two volume groups of the model have the same name; the volume
\* group a guided LVM choice makes gets the first name of the sequence
\* ubuntu-vg, ubuntu-vg-1, ... that no volume group has, so that on a model
\* whose names of the sequence are the first N ones it gets the next one.
C23_GuidedVgNames ==
    /\ [](\A v, w \in fsm.vgs : v.name = w.name => v = w)
    /\ [][step'.call = "guided_lvm" =>
             \E v \in fsm'.vgs :
                 /\ v \notin fsm.vgs
                 /\ fsm'.vgs = fsm.vgs \cup {v}
                 /\ \E i \in 0..Cardinality(fsm.vgs) :
                        /\ v.name = VgName(i)
                        /\ VgName(i) \notin NamesOf(fsm)
                        /\ \A j \in 0..i - 1 : VgName(j) \in NamesOf(fsm)
                        /\ SequenceNames(fsm) = {VgName(j) : j \in 0..i - 1}
                               => SequenceNames(fsm') = {VgName(j) : j \in 0..i}]_vars

\* Three guided volume groups beside one named 'ubuntu-vg-0': they have the
\* first three names of the sequence.
C23_Witness ==
    /\ step.call = "guided_lvm"
    /\ NamesOf(fsm) = {<<"ubuntu-vg", 0>>, VgName(0), VgName(1), VgName(2)}

----------------------------------------------------------------------------
\* The scenarios of v2_guided_GET.

\* The place of a device in the lists of get_guided_disks: the raids first.
ListRank(i) ==
    IF scen.devs[i].type = "raid" THEN i ELSE Len(scen.devs) + i

KindRank(kind) ==
    CASE kind = "Reformat" -> 1
      [] kind = "UseGap" -> 2
      [] kind = "Resize" -> 3

\* The place of the partition of a number among the partitions of a device.
PartPos(i, number) ==
    IF number = 0 THEN 0
    ELSE CHOOSE j \in 1..Len(scen.devs[i].parts) :
            scen.devs[i].parts[j].number = number

\* The statement of C24 as written: the sizes never increase along the list,
\* and of two neighbours of one size the first is of the device listed
\* earlier or, on one device, of the earlier kind.
C24_DiskThenKind ==
    \A k \in 1..(Len(scen.scenarios) - 1) :
        LET a == scen.scenarios[k]
            b == scen.scenarios[k + 1]
        IN  /\ a.size >= b.size
            /\ a.size = b.size =>
                  \/ ListRank(a.disk) < ListRank(b.disk)
                  \/ a.disk = b.disk /\ KindRank(a.kind) <= KindRank(b.kind)

\* C24 (amended): the sizes never increase along the list of scenarios, and
\* scenarios of one size stand in the order of the kinds Reformat, UseGap,
\* Resize; within a kind in the order in which get_guided_disks lists their
\* devices (the raids, then the disks), and on one device in the order of
\* its partitions.
C24_KindThenDisk ==
    \A k \in 1..Len(scen.scenarios), l \in 1..Len(scen.scenarios) :
        LET a == scen.scenarios[k]
            b == scen.scenarios[l]
        IN  k < l =>
              /\ a.size >= b.size
              /\ a.size = b.size =>
                    \/ KindRank(a.kind) < KindRank(b.kind)
                    \/ /\ a.kind = b.kind
                       /\ \/ ListRank(a.disk) < ListRank(b.disk)
                          \/ /\ a.disk = b.disk
                             /\ PartPos(a.disk, a.number)
                                  < PartPos(b.disk, b.number)

\* The Reformat scenario of the second device stands right before a UseGap
\* scenario of the first device, both of one size, and two Resize scenarios
\* of one size are listed.
C24_Witness ==
    /\ scen.called
    /\ \E k \in 1..(Len(scen.scenarios) - 1) :
          /\ scen.scenarios[k].kind = "Reformat"
          /\ scen.scenarios[k + 1].kind = "UseGap"
          /\ scen.scenarios[k].size = scen.scenarios[k + 1].size
          /\ ListRank(scen.scenarios[k + 1].disk)
               < ListRank(scen.scenarios[k].disk)
    /\ \E k \in 1..(Len(scen.scenarios) - 1) :
          /\ scen.scenarios[k].kind = "Resize"
          /\ scen.scenarios[k + 1].kind = "Resize"
          /\ scen.scenarios[k].size = scen.scenarios[k + 1].size

\* A device passes the boot check of a pass: it can be a boot device, with
\* reformatting or without, and is no disk under a bootable Raid.
Eligible(d, with_reformatting) ==
    /\ IF with_reformatting THEN d.boot_wr ELSE d.boot_nr
    /\ ~(d.type = "disk" /\ d.member)

\* The scenarios of a kind listed for a device.
Listed(kind, i) ==
    {k \in 1..Len(scen.scenarios) :
        scen.scenarios[k].kind = kind /\ scen.scenarios[k].disk = i}

\* C25: once the scenarios are listed, a device has one Reformat scenario,
\* of its size, when it passes the boot check with reformatting and its size
\* is at least the install minimum, and none otherwise; it has one UseGap
\* scenario, of the size of its largest gap, when it passes the boot check
\* without reformatting, has a partition and its largest gap is at least the
\* install minimum, and none otherwise; a device without partitions has
\* neither a UseGap nor a Resize scenario; and for a single empty bootable
\* disk of 250 GiB and an install minimum of 20 GiB the list is one Reformat
\* scenario of 250 GiB.
C25_ReformatAndUseGap ==
    scen.called =>
      /\ \A i \in 1..Len(scen.devs) :
            LET d == scen.devs[i]
            IN  /\ Cardinality(Listed("Reformat", i)) =
                     IF Eligible(d, TRUE) /\ d.size >= scen.install_min
                     THEN 1 ELSE 0
                /\ Cardinality(Listed("UseGap", i)) =
                     IF /\ Eligible(d, FALSE)
                        /\ Len(d.parts) >= 1
                        /\ d.gap >= scen.install_min
                     THEN 1 ELSE 0
                /\ \A k \in Listed("Reformat", i) :
                      scen.scenarios[k].size = d.size
                /\ \A k \in Listed("UseGap", i) :
                      scen.scenarios[k].size = d.gap
                /\ Len(d.parts) = 0 =>
                      Listed("UseGap", i) \cup Listed("Resize", i) = {}
      /\ ( /\ Len(scen.devs) = 1
           /\ scen.devs[1].size = 250 * GiB
           /\ scen.devs[1].parts = <<>>
           /\ Eligible(scen.devs[1], TRUE)
           /\ scen.install_min = 20 * GiB )
          => scen.scenarios = <<Scenario(250 * GiB, "Reformat", 1, 0)>>

\* The scenarios of a single empty disk of 250 GiB are listed for an install
\* minimum of 20 GiB.
C25_Witness ==
    /\ scen.called
    /\ Len(scen.devs) = 1
    /\ scen.devs[1].type = "disk"
    /\ scen.devs[1].size = 250 * GiB
    /\ scen.devs[1].parts = <<>>
    /\ Eligible(scen.devs[1], TRUE)
    /\ scen.install_min = 20 * GiB
    /\ Len(scen.scenarios) = 1

\* A partition can be shrunk far enough for the install.
Feasible(p) ==
    p.size - AlignUp(p.estimated_min_size, PartAlign) >= scen.install_min

\* The partitions of a device that have a Resize scenario.
Resized(i) ==
    {scen.scenarios[k].number : k \in Listed("Resize", i)}

\* A partition has a Resize scenario exactly when shrinking it is feasible
\* and its disk stays a boot device.
ResizeWhenFeasible ==
    \A i \in 1..Len(scen.devs) :
        /\ Resized(i) =
             {scen.devs[i].parts[j].number :
                j \in {n \in 1..Len(scen.devs[i].parts) :
                         /\ Feasible(scen.devs[i].parts[n])
                         /\ scen.devs[i].parts[n].boot_ok}}
        /\ Cardinality(Listed("Resize", i)) = Cardinality(Resized(i))

\* The statement of C26 as written: the Reformat and the UseGap pass both go
\* over the devices that pass the boot check with reformatting, and a
\* partition has a Resize scenario exactly when shrinking it is feasible and
\* its disk stays a boot device.
C26_UseGapWithReformatting ==
    scen.called =>
      /\ \A i \in 1..Len(scen.devs) :
            LET d == scen.devs[i]
            IN  /\ Listed("Reformat", i) # {} => Eligible(d, TRUE)
                /\ Listed("UseGap", i) # {} <=>
                      /\ Eligible(d, TRUE)
                      /\ Len(d.parts) >= 1
                      /\ d.gap >= scen.install_min
      /\ ResizeWhenFeasible

\* C26 (amended): the Reformat pass goes over the devices that pass the boot
\* check with reformatting and the UseGap pass over the ones that pass it
\* without reformatting, so that a device that can boot only when reformatted
\* has no UseGap scenario; the Resize pass goes over every disk and raid
\* without a boot check of the device, and a partition has a Resize scenario
\* exactly when shrinking it is feasible and its disk stays a boot device
\* without reformatting after the resize.
C26_PassesAndResize ==
    scen.called =>
      /\ \A i \in 1..Len(scen.devs) :
            LET d == scen.devs[i]
            IN  /\ Listed("Reformat", i) # {} => Eligible(d, TRUE)
                /\ Listed("UseGap", i) # {} <=>
                      /\ Eligible(d, FALSE)
                      /\ Len(d.parts) >= 1
                      /\ d.gap >= scen.install_min
      /\ ResizeWhenFeasible

\* A disk that can boot only when reformatted, with a partition and a gap
\* large enough, is listed for Reformat and not for UseGap, and a disk under
\* a bootable Raid has a Resize scenario.
C26_Witness ==
    /\ scen.called
    /\ \E i \in 1..Len(scen.devs) :
          /\ scen.devs[i].boot_wr /\ ~scen.devs[i].boot_nr
          /\ Len(scen.devs[i].parts) >= 1
          /\ scen.devs[i].gap >= scen.install_min
          /\ Listed("Reformat", i) # {}
          /\ Listed("UseGap", i) = {}
    /\ \E i \in 1..Len(scen.devs) :
          /\ scen.devs[i].type = "disk" /\ scen.devs[i].member
          /\ Listed("Resize", i) # {}

----------------------------------------------------------------------------
\* The unattended layout.

\* The step is run_autoinstall_guided with a layout of the mode.
ConvertedWith(mode) ==
    gret'.call = "run_autoinstall_guided" /\ gret'.mode = mode

\* C27: run_autoinstall_guided with a layout whose mode is neither
\* reformat_disk nor use_gap raises the ValueError of validate_layout_mode
\* with no target chosen and the disk, its filesystems, volume groups and
\* guided configuration as they were; with a layout that has no mode it
\* chooses a Reformat target and leaves the model as the same layout with the
\* mode reformat_disk would.
C27_InvalidLayoutMode ==
    [][/\ ConvertedWith("resize_biggest") =>
            /\ gret'.raised = "ValueError"
            /\ gret'.kind = "none"
            /\ disk' = disk
            /\ fsm' = fsm
       /\ ConvertedWith("absent") =>
            /\ gret'.kind = "Reformat"
            /\ fsm'.guided_configuration = "Reformat"
            /\ LET r == RunAutoinstallGuided(disk, fsm,
                            [name |-> IF gret'.use_lvm THEN "lvm" ELSE "direct",
                             mode |-> "reformat_disk"],
                            gret'.toggle_boot, TRUE).out
               IN  /\ disk' = r.disk
                   /\ fsm' = r.fs
                   /\ gret'.raised = r.raised]_vars

\* A layout of an unknown mode was refused on a disk that has a partition
\* with a volume group.
C27_Witness ==
    /\ gret.call = "run_autoinstall_guided"
    /\ gret.mode = "resize_biggest"
    /\ gret.raised = "ValueError"
    /\ disk.parts # <<>>
    /\ fsm.vgs # {}

\* C28: apply_autoinstall_config gets past its two awaits only when the
\* start task is done and a run of _probe is done; it returns without an
\* exception only if no probe failure is recorded, the root is mounted in the
\* converted model and the model needs no bootloader partition; with no
\* failure recorded and a layout converted it raises "did not mount root"
\* when the root is not mounted and "did not create needed bootloader
\* partition" when only the bootloader partition is missing.
C28_ConvertedAfterProbe ==
    step.call = "apply_autoinstall_config" =>
        /\ _start_task = "done"
        /\ \E r \in DOMAIN runs : runs[r].state = "done"
        /\ step.raised = "none" =>
              /\ DOMAIN _errors = {}
              /\ model.edits > 0
              /\ ~step.needs_bootloader_partition
        /\ (DOMAIN _errors = {} /\ step.raised # "ValueError") =>
              /\ model.edits = 0 => step.raised = "did not mount root"
              /\ (model.edits > 0 /\ step.needs_bootloader_partition) =>
                    step.raised = "did not create needed bootloader partition"

\* The probe went through, the layout mounted the root, and the unattended
\* path failed for the bootloader partition that is still needed.
C28_Witness ==
    /\ step.call = "apply_autoinstall_config"
    /\ DOMAIN _errors = {}
    /\ model.edits > 0
    /\ step.needs_bootloader_partition
    /\ step.raised = "did not create needed bootloader partition"

----------------------------------------------------------------------------
\* The watcher after configured().

\* configured() has been called and has returned.
ConfiguredOver ==
    _configured /\ configured_pc = "idle"

\* C29: once configured() has returned the reader of the monitor is not
\* registered, in every later state, and no step of _udev_event drains the
\* queue and requests a run of _probe.
C29_StaysDetached ==
    /\ [](ConfiguredOver => ~listening)
    /\ [][ConfiguredOver => ~SettledTrigger]_vars

----------------------------------------------------------------------------
\* Settled batches and the runs after them.

\* _udev_event has just drained a settled batch before configured(); the
\* request it made for a run was met (log "triggered") or skipped.
Batch(how) ==
    step.received > 0 /\ ~_configured /\ log = how

RunDone(r) ==
    r \in DOMAIN runs /\ runs[r].state = "done"

\* The statement of C30 as written: after every settled batch before
\* configured() a run of _probe that was started at the batch or later comes
\* to its end; the runs are numbered in the order of their start, so that
\* after a skipped request these are the runs after the current one.
C30_RunAfterEveryBatch ==
    \A n \in 2..MaxRuns :
        (/\ step.received > 0 /\ ~_configured
         /\ n = IF log = "triggered" THEN _probe_task ELSE _probe_task + 1)
          ~> (\E r \in DOMAIN runs : r >= n /\ runs[r].state = "done")

\* C30 (amended): before configured(), a settled batch that arrives while no
\* run of _probe is active starts a run, and a settled batch that arrives
\* while a run is active starts none and leaves the coordinator's task as it
\* is; the coordinator's task stops being active only by coming to its end,
\* and an active run does come to its end: the run the batch started in the
\* first case, the run started before the batch in the second.
C30_RunAfterIdleBatch ==
    /\ Busy(runs, _probe_task) ~> ~Busy(runs, _probe_task)
    /\ [][/\ (SettledTrigger /\ ~_configured) =>
               IF Busy(runs, _probe_task)
               THEN /\ log' = "skipped"
                    /\ _probe_task' = _probe_task
                    /\ DOMAIN runs' \subseteq DOMAIN runs
                    /\ Busy(runs', _probe_task')
               ELSE /\ log' = "triggered"
                    /\ _probe_task' \notin DOMAIN runs
                    /\ Busy(runs', _probe_task')
           /\ (Busy(runs, _probe_task) /\ ~Busy(runs', _probe_task')) =>
               /\ _probe_task' = _probe_task
               /\ RunDone(_probe_task)']_vars

\* A settled batch was drained while a run was active, and its request for a
\* run was skipped.
C30_Witness ==
    /\ Batch("skipped")
    /\ Busy(runs, _probe_task)

\* ---------------------------------------------------------------------
\* guided(choice) that raises
\* ---------------------------------------------------------------------

\* The step just taken is a guided(choice) that raised.
GuidedFailed ==
    gret'.call = "guided" /\ gret'.raised # "none"

\* C31, as stated: guided(choice) is all-or-nothing; when it fails at any
\* step, the partitions with their sizes and pending-resize flags, the volume
\* groups and the recorded guided configuration are as before the call.
C31_AllOrNothing ==
    [][GuidedFailed =>
          /\ disk' = disk
          /\ fsm'.vgs = fsm.vgs
          /\ fsm'.guided_configuration = fsm.guided_configuration]_vars

\* The Resize target of the step just taken fails before it mutates: no
\* partition has the number, or the aligned size is too large.
ResizeRefused ==
    LET t == gret'.target
        i == GetPartition(disk, t.partition_number)
    IN  /\ t.kind = "Resize"
        /\ \/ i = 0
           \/ TooLarge(AlignUp(t.new_size, disk.part_align), disk.parts[i].size)

\* The partition of the Resize target of the step just taken has its new size
\* and is marked for resizing.
ResizeKept ==
    LET t == gret'.target
    IN  \E i \in 1..Len(disk'.parts) :
            /\ disk'.parts[i].number = t.partition_number
            /\ disk'.parts[i].size = AlignUp(t.new_size, disk.part_align)
            /\ disk'.parts[i].resize

\* C31, amended: guided(choice) is not all-or-nothing.  When it raises, the
\* guided configuration recorded is that of the failed choice and nothing
\* done by the steps that completed is undone: a Resize target refused
\* before it mutates leaves the partitions and everything on them as they
\* were; a failure after a Resize target was applied leaves the partition
\* at its new size and marked for resizing; the partitions the disk had and
\* those present when the payload's layout began are still there.
C31_FailureKeepsCompletedSteps ==
    [][GuidedFailed =>
          /\ fsm'.guided_configuration = gret'.target.kind
          /\ fsm'.guided_configuration # fsm.guided_configuration
          /\ ResizeRefused =>
                /\ disk' = disk
                /\ fsm' = [fsm EXCEPT !.guided_configuration = "Resize"]
          /\ (gret'.target.kind = "Resize" /\ ~ResizeRefused) => ResizeKept
          /\ gret'.target.kind # "Reformat" =>
                Numbers(disk) \subseteq Numbers(disk')
          /\ gret'.mid \subseteq Numbers(disk')]_vars

\* A guided(choice) with a Resize target has raised while the payload was
\* laid out: the choice is recorded, the partition is marked for resizing,
\* and the bootloader partition and a partition of the payload are left on
\* the disk.
C31_Witness ==
    /\ gret.call = "guided"
    /\ gret.raised # "none"
    /\ gret.target.kind = "Resize"
    /\ fsm.guided_configuration = "Resize"
    /\ \E i \in 1..Len(disk.parts) :
           /\ disk.parts[i].number = gret.target.partition_number
           /\ disk.parts[i].resize
    /\ fsm.boot # {}
    /\ fsm.boot \subseteq gret.mid
    /\ Numbers(disk) \ gret.mid # {}

====
